---- MODULE Spec2Model ----
(***************************************************************************)
(* Customer engagement scoring and segmentation.                           *)
(*                                                                         *)
(* Two programs are modelled:                                              *)
(*   - CustomerEngagementAnalyzer (customer_engagement_analyzer.py): a     *)
(*     batch classification of the rows of a customer CSV into recent,     *)
(*     historical and disengaged customers;                                *)
(*   - CustomerEngagementReport (customer_engagement_report.py): the       *)
(*     per-customer pipeline that turns a payment list into a profile.     *)
(*                                                                         *)
(* Time is counted in ticks, TicksPerDay ticks to a day, so that a         *)
(* timedelta's .days (a floor) differs from the timedelta itself.          *)
(* Money is counted in whole dollars.  A float that the code obtains by a  *)
(* division is kept as an exact fraction [nan, num, den].                  *)
(***************************************************************************)
EXTENDS Integers, Sequences, FiniteSets, TLC

VARIABLES
    \* ---- CustomerEngagementAnalyzer ----
    recent_window_months,      \* self.recent_window_months
    historical_window_months,  \* self.historical_window_months
    min_spend_threshold,       \* self.min_spend_threshold
    df,                        \* self.df, a sequence of rows
    current_date,              \* datetime.now() as read by analyze_engagement
    recent_customers,          \* self.recent_customers
    historical_customers,      \* self.historical_customers
    disengaged_customers,      \* self.disengaged_customers
    engagement_targets,        \* the frame generate_engagement_targets returns
    apc,                       \* where the analyzer run stands
    \* ---- CustomerEngagementReport._analyze_customer_engagement ----
    data,                      \* the customer's entry of customer_data
    profile,                   \* the CustomerEngagement returned
    rpc,                       \* "input" before the call, "done" after it
    readings,                  \* the clock readings <<now1, now2>> of every call
    profile_again,             \* what a second call on the same entry returned
    \* ---- a single call of one of the pure classification functions ----
    fn_args,                   \* the arguments of the call
    fn_ret,                    \* the value returned, NoCall before the call
    \* ---- CustomerEngagementReport.fetch_stripe_data and the segments ----
    stripe_payments,           \* the PaymentIntents stripe lists, in order
    cursor,                    \* how many of them the loop has taken
    customer_data,             \* the entries of customer_data, in insertion order
    customers,                 \* self.customers
    segments,                  \* what _calculate_risk_segments returned
    fetch_pc,                  \* where fetch_stripe_data and the export stand
    \* ---- CustomerEngagementReport.export_results and the two directories ----
    metrics,                   \* what _calculate_overall_metrics returned
    report_to_display,         \* the files of report_to_display/
    all_reports,               \* the files below all_reports/
    os_name,                   \* os.name, which decides what Path.rename does
    export_clock,              \* the last reading of the wall clock, in seconds
    exported                   \* the reports written so far, in order

avars == <<recent_window_months, historical_window_months, min_spend_threshold,
           df, current_date, recent_customers, historical_customers,
           disengaged_customers, engagement_targets, apc>>
rvars == <<data, profile, rpc, readings, profile_again>>
fvars == <<fn_args, fn_ret>>
svars == <<stripe_payments, cursor, customer_data, customers, segments, fetch_pc>>
evars == <<metrics, report_to_display, all_reports, os_name, export_clock, exported>>
vars == <<avars, rvars, fvars, svars, evars>>

(***************************************************************************)
(* Bounds of the model.                                                    *)
(***************************************************************************)
TicksPerDay == 2
MaxRows == 2
MaxDelay == 1
MaxPayments == 3
MaxHistory == 4
MaxStream == 3
\* How many times export_results is called
MaxExports == 3
\* How many seconds the wall clock advances while the exports run
MaxSeconds == 2

\* The instant the CSV was exported; every row's last payment is before it.
StartClock == 400 * TicksPerDay

\* timedelta(days=n)
timedelta(n) == n * TicksPerDay

\* timedelta.days: the whole days of a duration, rounded towards minus infinity
days(td) == td \div TicksPerDay

(***************************************************************************)
(*                      CustomerEngagementAnalyzer                         *)
(***************************************************************************)

\* The customer ids of the CSV, in row order.  The export that writes the CSV
\* (StripeAnalytics.export_to_csv) writes one row per key of a dict keyed by
\* customer id, so the ids of a frame are distinct.
CustomerIds == <<"cus_A", "cus_B", "cus_C">>

\* Ages (whole days before StartClock) of a row's last payment.
AgeDays == {30, 90, 91, 360}
SpendValues == {100, 200, 10500}
CountValues == {3, 10}
\* The configurations the analyzer is built with:
\* <<recent_window_months, historical_window_months, min_spend_threshold>>;
\* the first is the constructor's default, the last has a negative threshold.
Configs == {<<3, 9, 100>>, <<3, 9, 200>>, <<1, 2, 100>>, <<3, 9, -100>>}

\* One row of the CUSTOMER DETAILS section, as load_data types it.
CsvRows ==
    [total_spend : SpendValues,
     transaction_count : CountValues,
     last_payment_date : {StartClock - timedelta(a) : a \in AgeDays}]

\* The frames load_data can produce: row i carries the i-th customer id.
Frames ==
    UNION {
        {[i \in 1..n |->
            [customer_id |-> CustomerIds[i],
             total_spend |-> f[i].total_spend,
             transaction_count |-> f[i].transaction_count,
             last_payment_date |-> f[i].last_payment_date]] :
         f \in [1..n -> CsvRows]} :
        n \in 0..MaxRows}

\* The analyzer's scorer with the count band written as three independent ifs
\* instead of an if/elif chain: the bands add up.
Analyzer_score_without_elif(threshold, transaction_count, total_spend, last_payment_date, now) ==
    LET days_since_last_payment == days(now - last_payment_date)
        frequency == (IF transaction_count >= 10 THEN 3 ELSE 0)
                     + (IF transaction_count >= 5 THEN 2 ELSE 0)
                     + (IF transaction_count >= 2 THEN 1 ELSE 0)
        monetary == IF total_spend >= 5000 THEN 4
                    ELSE IF total_spend >= 1000 THEN 3
                    ELSE IF total_spend >= 500 THEN 2
                    ELSE IF total_spend >= threshold THEN 1
                    ELSE 0
        recency == IF days_since_last_payment <= 30 THEN 3
                   ELSE IF days_since_last_payment <= 60 THEN 2
                   ELSE IF days_since_last_payment <= 90 THEN 1
                   ELSE 0
    IN  frequency + monetary + recency

\* The analyzer's scorer with the last recency tier one day wider
Analyzer_score_ninety_one_days(threshold, transaction_count, total_spend, last_payment_date, now) ==
    LET days_since_last_payment == days(now - last_payment_date)
        frequency == IF transaction_count >= 10 THEN 3
                     ELSE IF transaction_count >= 5 THEN 2
                     ELSE IF transaction_count >= 2 THEN 1
                     ELSE 0
        monetary == IF total_spend >= 5000 THEN 4
                    ELSE IF total_spend >= 1000 THEN 3
                    ELSE IF total_spend >= 500 THEN 2
                    ELSE IF total_spend >= threshold THEN 1
                    ELSE 0
        recency == IF days_since_last_payment <= 30 THEN 3
                   ELSE IF days_since_last_payment <= 60 THEN 2
                   ELSE IF days_since_last_payment <= 91 THEN 1
                   ELSE 0
    IN  frequency + monetary + recency

\* The analyzer's scorer with the test against the threshold ahead of the
\* three fixed tiers
Analyzer_score_threshold_first(threshold, transaction_count, total_spend, last_payment_date, now) ==
    LET days_since_last_payment == days(now - last_payment_date)
        frequency == IF transaction_count >= 10 THEN 3
                     ELSE IF transaction_count >= 5 THEN 2
                     ELSE IF transaction_count >= 2 THEN 1
                     ELSE 0
        monetary == IF total_spend >= threshold THEN 1
                    ELSE IF total_spend >= 5000 THEN 4
                    ELSE IF total_spend >= 1000 THEN 3
                    ELSE IF total_spend >= 500 THEN 2
                    ELSE 0
        recency == IF days_since_last_payment <= 30 THEN 3
                   ELSE IF days_since_last_payment <= 60 THEN 2
                   ELSE IF days_since_last_payment <= 90 THEN 1
                   ELSE 0
    IN  frequency + monetary + recency

\* CustomerEngagementAnalyzer._calculate_engagement_score
Analyzer_calculate_engagement_score(threshold, transaction_count, total_spend, last_payment_date, now) ==
    LET days_since_last_payment == days(now - last_payment_date)
        frequency == IF transaction_count >= 10 THEN 3
                     ELSE IF transaction_count >= 5 THEN 2
                     ELSE IF transaction_count >= 2 THEN 1
                     ELSE 0
        monetary == IF total_spend >= 5000 THEN 4
                    ELSE IF total_spend >= 1000 THEN 3
                    ELSE IF total_spend >= 500 THEN 2
                    ELSE IF total_spend >= threshold THEN 1
                    ELSE 0
        recency == IF days_since_last_payment <= 30 THEN 3
                   ELSE IF days_since_last_payment <= 60 THEN 2
                   ELSE IF days_since_last_payment <= 90 THEN 1
                   ELSE 0
    IN  frequency + monetary + recency

\* recent_cutoff of analyze_engagement
recent_cutoff(now, recent_months) == now - timedelta(recent_months * 30)

\* historical_cutoff of analyze_engagement
historical_cutoff(now, recent_months, historical_months) ==
    now - timedelta((recent_months + historical_months) * 30)

\* The recent filter with the spend test against the threshold itself, not
\* twice the threshold.
IsRecentRow_single_threshold(row, now, recent_months, threshold) ==
    \/ row.engagement_score >= 7
    \/ /\ row.last_payment_date >= recent_cutoff(now, recent_months)
       /\ row.total_spend >= threshold

\* The row filter that builds self.recent_customers
IsRecentRow(row, now, recent_months, threshold) ==
    \/ row.engagement_score >= 7
    \/ /\ row.last_payment_date >= recent_cutoff(now, recent_months)
       /\ row.total_spend >= threshold * 2

\* The historical filter with the historical cutoff itself left out.
IsHistoricalRow_open_interval(row, now, recent_months, historical_months, threshold) ==
    /\ row.last_payment_date < recent_cutoff(now, recent_months)
    /\ row.last_payment_date > historical_cutoff(now, recent_months, historical_months)
    /\ row.total_spend >= threshold

\* The row filter that builds self.historical_customers
IsHistoricalRow(row, now, recent_months, historical_months, threshold) ==
    /\ row.last_payment_date < recent_cutoff(now, recent_months)
    /\ row.last_payment_date >= historical_cutoff(now, recent_months, historical_months)
    /\ row.total_spend >= threshold

\* The column frame['customer_id'], as a set (the argument of isin)
IdsOf(frame) == {frame[i].customer_id : i \in DOMAIN frame}

\* The disengaged filter with the negation of isin lost.
IsDisengagedRow_without_negation(row, recent) == row.customer_id \in IdsOf(recent)

\* The row filter that builds self.disengaged_customers
IsDisengagedRow(row, recent) == row.customer_id \notin IdsOf(recent)

\* The reason cascade with the spend test moved ahead of the count test.
_classify_reason_spend_first(days_inactive, transaction_count, total_spend) ==
    IF days_inactive > 270 THEN "Long-term inactive"
    ELSE IF total_spend > 5000 THEN "High-value customer at risk"
    ELSE IF transaction_count <= 2 THEN "Low engagement history"
    ELSE "Standard churn risk"

\* CustomerEngagementAnalyzer._classify_disengagement_reason
_classify_disengagement_reason(days_inactive, transaction_count, total_spend) ==
    IF days_inactive > 270 THEN "Long-term inactive"
    ELSE IF transaction_count <= 2 THEN "Low engagement history"
    ELSE IF total_spend > 5000 THEN "High-value customer at risk"
    ELSE "Standard churn risk"

\* The orders sort_values('total_spend', ascending=False) may leave a frame in:
\* pandas' default sort is not stable, so rows of equal spend come in any order.
SortedBySpend(frame) ==
    {g \in [DOMAIN frame -> DOMAIN frame] :
        /\ \A i, j \in DOMAIN frame : i # j => g[i] # g[j]
        /\ \A i, j \in DOMAIN frame :
              i < j => frame[g[i]].total_spend >= frame[g[j]].total_spend}

\* CustomerEngagementAnalyzer.__init__
AnalyzerInit ==
    /\ \E c \in Configs :
          /\ recent_window_months = c[1]
          /\ historical_window_months = c[2]
          /\ min_spend_threshold = c[3]
    /\ df = <<>>
    /\ current_date = StartClock
    /\ recent_customers = <<>>
    /\ historical_customers = <<>>
    /\ disengaged_customers = <<>>
    /\ engagement_targets = <<>>
    /\ apc = "created"

\* CustomerEngagementAnalyzer.load_data
load_data ==
    /\ apc = "created"
    /\ df' \in Frames
    /\ apc' = "loaded"
    /\ UNCHANGED <<recent_window_months, historical_window_months,
                   min_spend_threshold, current_date, recent_customers,
                   historical_customers, disengaged_customers,
                   engagement_targets, rvars, fvars, svars, evars>>

\* The frames analyze_engagement computes from self.df at the instant now:
\* the scored frame and the three filtered frames.
Analysis(frame, now, recent_months, historical_months, threshold) ==
    LET scored == [i \in DOMAIN frame |->
            [customer_id |-> frame[i].customer_id,
             total_spend |-> frame[i].total_spend,
             transaction_count |-> frame[i].transaction_count,
             last_payment_date |-> frame[i].last_payment_date,
             engagement_score |->
                 Analyzer_calculate_engagement_score(
                     threshold, frame[i].transaction_count,
                     frame[i].total_spend, frame[i].last_payment_date, now)]]
        IsRecent(row) == IsRecentRow(row, now, recent_months, threshold)
        IsHistorical(row) ==
            IsHistoricalRow(row, now, recent_months, historical_months, threshold)
        recent == SelectSeq(scored, IsRecent)
        historical == SelectSeq(scored, IsHistorical)
        IsDisengaged(row) == IsDisengagedRow(row, recent)
    IN  [df |-> scored,
         recent_customers |-> recent,
         historical_customers |-> historical,
         disengaged_customers |-> SelectSeq(historical, IsDisengaged)]

\* The instants at which datetime.now() can be read, given the last reading.
Clock(last) == last..(StartClock + MaxDelay)

\* CustomerEngagementAnalyzer.analyze_engagement (it can be run again later)
analyze_engagement ==
    /\ apc # "created"
    /\ \E now \in Clock(current_date) :
          LET a == Analysis(df, now, recent_window_months,
                            historical_window_months, min_spend_threshold)
          IN  /\ current_date' = now
              /\ df' = a.df
              /\ recent_customers' = a.recent_customers
              /\ historical_customers' = a.historical_customers
              /\ disengaged_customers' = a.disengaged_customers
    /\ apc' = "analyzed"
    /\ UNCHANGED <<recent_window_months, historical_window_months,
                   min_spend_threshold, engagement_targets, rvars, fvars, svars, evars>>

\* The target frame with the reason computed for the row at the same position
\* of the unsorted frame.
Targets_reason_of_unsorted_row(disengaged, now, g) ==
    [i \in DOMAIN disengaged |->
        LET row == disengaged[g[i]]
            other == disengaged[i]
            inactive == days(now - row.last_payment_date)
        IN  [customer_id |-> row.customer_id,
             total_spend |-> row.total_spend,
             last_payment_date |-> row.last_payment_date,
             days_since_last_transaction |-> inactive,
             disengagement_reason |->
                 _classify_disengagement_reason(
                     inactive, other.transaction_count, other.total_spend)]]

\* The frame generate_engagement_targets builds from the disengaged frame.
Targets(disengaged, now, g) ==
    [i \in DOMAIN disengaged |->
        LET row == disengaged[g[i]]
            inactive == days(now - row.last_payment_date)
        IN  [customer_id |-> row.customer_id,
             total_spend |-> row.total_spend,
             last_payment_date |-> row.last_payment_date,
             days_since_last_transaction |-> inactive,
             disengagement_reason |->
                 _classify_disengagement_reason(
                     inactive, row.transaction_count, row.total_spend)]]

\* CustomerEngagementAnalyzer.generate_engagement_targets: it runs
\* analyze_engagement first when no analysis was made yet, and reads the clock
\* again for the days of inactivity, no earlier than the analysis did.
generate_engagement_targets ==
    /\ apc # "created"
    /\ \E now1 \in Clock(current_date) :
          LET fresh == apc = "loaded"
              a == IF fresh
                   THEN Analysis(df, now1, recent_window_months,
                                 historical_window_months, min_spend_threshold)
                   ELSE [df |-> df,
                         recent_customers |-> recent_customers,
                         historical_customers |-> historical_customers,
                         disengaged_customers |-> disengaged_customers]
              analysed_at == IF fresh THEN now1 ELSE current_date
          IN  /\ (~fresh => now1 = current_date)
              /\ current_date' = analysed_at
              /\ df' = a.df
              /\ recent_customers' = a.recent_customers
              /\ historical_customers' = a.historical_customers
              /\ disengaged_customers' = a.disengaged_customers
              /\ \E now2 \in Clock(analysed_at) :
                 \E g \in SortedBySpend(a.disengaged_customers) :
                    engagement_targets' = Targets(a.disengaged_customers, now2, g)
    /\ apc' = "targets"
    /\ UNCHANGED <<recent_window_months, historical_window_months,
                   min_spend_threshold, rvars, fvars, svars, evars>>

(***************************************************************************)
(*          CustomerEngagementReport: the classification functions         *)
(***************************************************************************)

\* float('nan'), and the float num/den
NaN == [nan |-> TRUE, num |-> 0, den |-> 1]
Frac(n, d) == [nan |-> FALSE, num |-> n, den |-> d]

\* Comparisons of a float with k times an integer; any comparison with NaN is
\* false.
FloatGt(x, k) == ~x.nan /\ x.num > k * x.den
FloatLe(x, k) == ~x.nan /\ x.num <= k * x.den

\* The report's scorer without the test that the frequency is positive
Report_score_without_positive_frequency(transaction_count, total_spend, days_since_last, payment_frequency) ==
    LET frequency == IF transaction_count >= 10 THEN 3
                     ELSE IF transaction_count >= 5 THEN 2
                     ELSE IF transaction_count >= 2 THEN 1
                     ELSE 0
        monetary == IF total_spend >= 5000 THEN 3
                    ELSE IF total_spend >= 1000 THEN 2
                    ELSE IF total_spend >= 500 THEN 1
                    ELSE 0
        recency == IF days_since_last <= 30 THEN 2
                   ELSE IF days_since_last <= 90 THEN 1
                   ELSE 0
        regularity == IF FloatLe(payment_frequency, 45) THEN 2
                      ELSE IF FloatLe(payment_frequency, 90) THEN 1
                      ELSE 0
    IN  frequency + monetary + recency + regularity

\* CustomerEngagementReport._calculate_engagement_score
Report_calculate_engagement_score(transaction_count, total_spend, days_since_last, payment_frequency) ==
    LET frequency == IF transaction_count >= 10 THEN 3
                     ELSE IF transaction_count >= 5 THEN 2
                     ELSE IF transaction_count >= 2 THEN 1
                     ELSE 0
        monetary == IF total_spend >= 5000 THEN 3
                    ELSE IF total_spend >= 1000 THEN 2
                    ELSE IF total_spend >= 500 THEN 1
                    ELSE 0
        recency == IF days_since_last <= 30 THEN 2
                   ELSE IF days_since_last <= 90 THEN 1
                   ELSE 0
        regularity == IF FloatGt(payment_frequency, 0)
                      THEN IF FloatLe(payment_frequency, 45) THEN 2
                           ELSE IF FloatLe(payment_frequency, 90) THEN 1
                           ELSE 0
                      ELSE 0
    IN  frequency + monetary + recency + regularity

\* The status cascade with the two score tests ahead of the dormant test.
_determine_status_score_first(score, days_since_last, historical_engagement) ==
    IF score >= 7 THEN "active"
    ELSE IF score >= 4 /\ days_since_last <= 180 THEN "active"
    ELSE IF historical_engagement = "dormant" /\ score >= 5 THEN "potential_reengagement"
    ELSE IF historical_engagement \in {"declining", "dormant"} THEN "disengaged"
    ELSE "inactive"

\* CustomerEngagementReport._determine_engagement_status
_determine_engagement_status(score, days_since_last, historical_engagement) ==
    IF historical_engagement = "dormant" /\ score >= 5 THEN "potential_reengagement"
    ELSE IF score >= 7 THEN "active"
    ELSE IF score >= 4 /\ days_since_last <= 180 THEN "active"
    ELSE IF historical_engagement \in {"declining", "dormant"} THEN "disengaged"
    ELSE "inactive"

\* The risk cascade with the high-spend branch ahead of the score test.
_assess_risk_spend_first(score, total_spend, days_since_last) ==
    IF total_spend >= 5000
    THEN IF days_since_last > 90 THEN "high" ELSE "medium"
    ELSE IF score >= 7 THEN "low"
    ELSE IF days_since_last > 180 THEN "high"
    ELSE IF days_since_last > 90 THEN "medium"
    ELSE "low"

\* CustomerEngagementReport._assess_risk_level
_assess_risk_level(score, total_spend, days_since_last) ==
    IF score >= 7 THEN "low"
    ELSE IF total_spend >= 5000
         THEN IF days_since_last > 90 THEN "high" ELSE "medium"
    ELSE IF days_since_last > 180 THEN "high"
    ELSE IF days_since_last > 90 THEN "medium"
    ELSE "low"

(***************************************************************************)
(*        CustomerEngagementReport: the per-customer pipeline              *)
(***************************************************************************)

\* A datetime field that may be None.  A date is num/den ticks: the predicted
\* date is the last date plus a float number of days.
NoDate == [none |-> TRUE, num |-> 0, den |-> 1]
DateAt(n, d) == [none |-> FALSE, num |-> n, den |-> d]

\* The float 0.0 of payment_regularity_score, and the value
\* 1 / (1 + stdev / avg_frequency) = s / (s + sqrt(qn / qd)), where s is the
\* sum of the n day gaps, qn = n * (n * (sum of squares) - s * s), qd = n - 1.
RegularityZero == [zero |-> TRUE, s |-> 0, qn |-> 0, qd |-> 1]
RegularityOf(s, qn, qd) == [zero |-> FALSE, s |-> s, qn |-> qn, qd |-> qd]

RECURSIVE SumOf(_)
SumOf(xs) == IF xs = <<>> THEN 0 ELSE Head(xs) + SumOf(Tail(xs))

Amounts(payments) == [i \in DOMAIN payments |-> payments[i].amount]

\* list.append in place of the insertion by date: the order of arrival is kept
InsertAtEnd(done, p) == Append(done, p)

\* list.insert after the entries whose date is not later: one step of the
\* stable sort
InsertByDate(done, p) ==
    LET k == Cardinality({i \in DOMAIN done : done[i].date <= p.date})
    IN  SubSeq(done, 1, k) \o <<p>> \o SubSeq(done, k + 1, Len(done))

\* sorted(payments, key=lambda x: x['date']): stable, entries of equal date
\* keep their order of arrival
RECURSIVE sorted(_)
sorted(payments) ==
    IF payments = <<>> THEN <<>>
    ELSE InsertByDate(sorted(SubSeq(payments, 1, Len(payments) - 1)),
                      payments[Len(payments)])

\* time_diffs: the whole days between consecutive payments
time_diffs(payments) ==
    [i \in 1..(Len(payments) - 1) |-> days(payments[i + 1].date - payments[i].date)]

\* _calculate_payment_frequency returning 0 where it has no gap to average
_calculate_payment_frequency_zero_default(payments) ==
    IF Len(payments) > 1
    THEN Frac(SumOf(time_diffs(payments)), Len(payments) - 1)
    ELSE Frac(0, 1)

\* _calculate_payment_frequency dividing the gaps by the number of payments
_calculate_payment_frequency_per_payment(payments) ==
    IF Len(payments) > 1
    THEN Frac(SumOf(time_diffs(payments)), Len(payments))
    ELSE NaN

\* CustomerEngagementReport._calculate_payment_frequency
_calculate_payment_frequency(payments) ==
    IF Len(payments) > 1
    THEN Frac(SumOf(time_diffs(payments)), Len(payments) - 1)
    ELSE NaN

\* The status cascade of _predict_next_payment with the two tests in the
\* other order.
_predict_next_payment_overdue_first(last_payment_date, payment_frequency, days_since_last, now) ==
    IF payment_frequency.nan \/ last_payment_date.none
    THEN <<"unknown", NoDate, 0>>
    ELSE LET pnum == last_payment_date.num * payment_frequency.den
                     + TicksPerDay * payment_frequency.num * last_payment_date.den
             pden == last_payment_date.den * payment_frequency.den
             days_until_next == (pnum - now * pden) \div (pden * TicksPerDay)
             status ==
                 IF 2 * days_since_last * payment_frequency.den
                        > payment_frequency.num * 3
                 THEN "overdue"
                 ELSE IF days_since_last * payment_frequency.den
                             > payment_frequency.num * 2
                 THEN "at_risk"
                 ELSE "on_track"
         IN  <<status, DateAt(pnum, pden), days_until_next>>

\* _predict_next_payment with at_risk only beyond 4 times the frequency
_predict_next_payment_at_risk_after_four(last_payment_date, payment_frequency, days_since_last, now) ==
    IF payment_frequency.nan \/ last_payment_date.none
    THEN <<"unknown", NoDate, 0>>
    ELSE LET pnum == last_payment_date.num * payment_frequency.den
                     + TicksPerDay * payment_frequency.num * last_payment_date.den
             pden == last_payment_date.den * payment_frequency.den
             days_until_next == (pnum - now * pden) \div (pden * TicksPerDay)
             status ==
                 IF days_since_last * payment_frequency.den
                        > payment_frequency.num * 4
                 THEN "at_risk"
                 ELSE IF 2 * days_since_last * payment_frequency.den
                             > payment_frequency.num * 3
                 THEN "overdue"
                 ELSE "on_track"
         IN  <<status, DateAt(pnum, pden), days_until_next>>

\* CustomerEngagementReport._predict_next_payment; last_payment_date is a date
\* or None, now is the function's own reading of the clock.  The result is
\* <<status, predicted date, days until next>>.
_predict_next_payment(last_payment_date, payment_frequency, days_since_last, now) ==
    IF payment_frequency.nan \/ last_payment_date.none
    THEN <<"unknown", NoDate, 0>>
    ELSE LET pnum == last_payment_date.num * payment_frequency.den
                     + TicksPerDay * payment_frequency.num * last_payment_date.den
             pden == last_payment_date.den * payment_frequency.den
             days_until_next == (pnum - now * pden) \div (pden * TicksPerDay)
             status ==
                 IF days_since_last * payment_frequency.den
                        > payment_frequency.num * 2
                 THEN "at_risk"
                 ELSE IF 2 * days_since_last * payment_frequency.den
                             > payment_frequency.num * 3
                 THEN "overdue"
                 ELSE "on_track"
         IN  <<status, DateAt(pnum, pden), days_until_next>>

Abs(x) == IF x < 0 THEN -x ELSE x

\* _analyze_historical_engagement with the dormancy test after the two halves
_analyze_historical_engagement_dormant_last(payments, payment_frequency, days_since_last) ==
    IF Len(payments) < 2 THEN "new"
    ELSE LET mid_point == Len(payments) \div 2
             first_half == SubSeq(payments, 1, mid_point)
             second_half == SubSeq(payments, mid_point + 1, Len(payments))
             f == _calculate_payment_frequency(first_half)
             g == _calculate_payment_frequency(second_half)
         IN  IF ~f.nan /\ ~g.nan /\ 2 * g.num * f.den > 3 * f.num * g.den
             THEN "declining"
             ELSE IF ~f.nan /\ ~g.nan
                     /\ 5 * Abs(g.num * f.den - f.num * g.den) <= f.num * g.den
             THEN "consistent"
             ELSE IF days_since_last * payment_frequency.den
                         > payment_frequency.num * 3
             THEN "dormant"
             ELSE "irregular"

\* _analyze_historical_engagement with the middle payment in both halves
_analyze_historical_engagement_halves_sharing_middle(payments, payment_frequency, days_since_last) ==
    IF Len(payments) < 2 THEN "new"
    ELSE LET mid_point == Len(payments) \div 2
             first_half == SubSeq(payments, 1, mid_point + 1)
             second_half == SubSeq(payments, mid_point, Len(payments))
             f == _calculate_payment_frequency(first_half)
             g == _calculate_payment_frequency(second_half)
         IN  IF days_since_last * payment_frequency.den > payment_frequency.num * 3
             THEN "dormant"
             ELSE IF ~f.nan /\ ~g.nan
             THEN IF 2 * g.num * f.den > 3 * f.num * g.den
                  THEN "declining"
                  ELSE IF 5 * Abs(g.num * f.den - f.num * g.den) <= f.num * g.den
                  THEN "consistent"
                  ELSE "irregular"
             ELSE "irregular"

\* CustomerEngagementReport._analyze_historical_engagement
_analyze_historical_engagement(payments, payment_frequency, days_since_last) ==
    IF Len(payments) < 2 THEN "new"
    ELSE LET mid_point == Len(payments) \div 2
             first_half == SubSeq(payments, 1, mid_point)
             second_half == SubSeq(payments, mid_point + 1, Len(payments))
             f == _calculate_payment_frequency(first_half)
             g == _calculate_payment_frequency(second_half)
         IN  IF days_since_last * payment_frequency.den > payment_frequency.num * 3
             THEN "dormant"
             ELSE IF ~f.nan /\ ~g.nan
             THEN IF 2 * g.num * f.den > 3 * f.num * g.den
                  THEN "declining"
                  ELSE IF 5 * Abs(g.num * f.den - f.num * g.den) <= f.num * g.den
                  THEN "consistent"
                  ELSE "irregular"
             ELSE "irregular"

\* _calculate_payment_regularity computed from two payments on
_calculate_payment_regularity_from_two_payments(payments, avg_frequency) ==
    IF Len(payments) < 2 \/ avg_frequency.nan \/ avg_frequency.num = 0
    THEN RegularityZero
    ELSE LET diffs == time_diffs(payments)
             n == Len(diffs)
             s == SumOf(diffs)
             squares == SumOf([i \in DOMAIN diffs |-> diffs[i] * diffs[i]])
         IN  RegularityOf(s, n * (n * squares - s * s), n)

\* CustomerEngagementReport._calculate_payment_regularity
_calculate_payment_regularity(payments, avg_frequency) ==
    IF Len(payments) < 3 \/ avg_frequency.nan \/ avg_frequency.num = 0
    THEN RegularityZero
    ELSE LET diffs == time_diffs(payments)
             n == Len(diffs)
             s == SumOf(diffs)
             squares == SumOf([i \in DOMAIN diffs |-> diffs[i] * diffs[i]])
         IN  RegularityOf(s, n * (n * squares - s * s), n - 1)

\* _calculate_spending_trend taking the three earliest payments as the recent
\* ones
_calculate_spending_trend_earliest_three(payments) ==
    IF Len(payments) < 3 THEN "insufficient_data"
    ELSE LET sorted_payments == sorted(payments)
             n == Len(sorted_payments)
             recent == SumOf(Amounts(SubSeq(sorted_payments, 1, 3)))
             older == SumOf(Amounts(SubSeq(sorted_payments, 4, n)))
             rn == recent
             rd == 3
             on == IF n > 3 THEN older ELSE recent
             od == IF n > 3 THEN n - 3 ELSE 3
         IN  IF 5 * rn * od > 6 * on * rd THEN "increasing"
             ELSE IF 5 * rn * od < 4 * on * rd THEN "decreasing"
             ELSE "stable"

\* CustomerEngagementReport._calculate_spending_trend
_calculate_spending_trend(payments) ==
    IF Len(payments) < 3 THEN "insufficient_data"
    ELSE LET sorted_payments == sorted(payments)
             n == Len(sorted_payments)
             recent == SumOf(Amounts(SubSeq(sorted_payments, n - 2, n)))
             older == SumOf(Amounts(SubSeq(sorted_payments, 1, n - 3)))
             \* recent_avg = rn / rd, older_avg = on / od
             rn == recent
             rd == 3
             on == IF n > 3 THEN older ELSE recent
             od == IF n > 3 THEN n - 3 ELSE 3
         IN  IF 5 * rn * od > 6 * on * rd THEN "increasing"
             ELSE IF 5 * rn * od < 4 * on * rd THEN "decreasing"
             ELSE "stable"

\* CustomerEngagement(customer_id, email, name): every other field at the
\* dataclass's default
CustomerEngagement(customer_id, email, name) ==
    [customer_id |-> customer_id,
     email |-> email,
     name |-> name,
     total_spend |-> 0,
     transaction_count |-> 0,
     last_payment_amount |-> 0,
     last_payment_date |-> NoDate,
     last_payment_method |-> "",
     payment_history |-> <<>>,
     avg_payment_amount |-> Frac(0, 1),
     payment_frequency_days |-> Frac(0, 1),
     spending_trend |-> "stable",
     engagement_status |-> "active",
     engagement_score |-> 0,
     days_since_last_payment |-> 0,
     risk_level |-> "low",
     predicted_next_payment |-> NoDate,
     payment_status |-> "on_track",
     historical_engagement |-> "new",
     days_until_next_payment |-> 0,
     payment_regularity_score |-> RegularityZero]

\* CustomerEngagementReport._analyze_customer_engagement; now1 and now2 are the
\* two readings of the clock, its own and _predict_next_payment's.
_analyze_customer_engagement(customer_id, d, now1, now2) ==
    LET payments == sorted(d.payments)
    IN  IF payments = <<>>
        THEN CustomerEngagement(customer_id, d.email, d.name)
        ELSE
        LET total_spend == SumOf(Amounts(payments))
            last_payment == payments[Len(payments)]
            days_since_last == days(now1 - last_payment.date)
            payment_frequency == _calculate_payment_frequency(payments)
            prediction == _predict_next_payment(DateAt(last_payment.date, 1),
                              payment_frequency, days_since_last, now2)
            historical_engagement ==
                _analyze_historical_engagement(payments, payment_frequency,
                                               days_since_last)
            engagement_score ==
                Report_calculate_engagement_score(Len(payments), total_spend,
                    days_since_last, payment_frequency)
        IN  [customer_id |-> customer_id,
             email |-> d.email,
             name |-> d.name,
             total_spend |-> total_spend,
             transaction_count |-> Len(payments),
             last_payment_amount |-> last_payment.amount,
             last_payment_date |-> DateAt(last_payment.date, 1),
             last_payment_method |-> last_payment.method,
             payment_history |-> payments,
             avg_payment_amount |-> Frac(total_spend, Len(payments)),
             payment_frequency_days |-> payment_frequency,
             spending_trend |-> _calculate_spending_trend(payments),
             engagement_status |->
                 _determine_engagement_status(engagement_score, days_since_last,
                                              historical_engagement),
             engagement_score |-> engagement_score,
             days_since_last_payment |-> days_since_last,
             risk_level |->
                 _assess_risk_level(engagement_score, total_spend, days_since_last),
             predicted_next_payment |-> prediction[2],
             payment_status |-> prediction[1],
             historical_engagement |-> historical_engagement,
             days_until_next_payment |-> prediction[3],
             payment_regularity_score |->
                 _calculate_payment_regularity(payments, payment_frequency)]

\* The payments a customer's entry can hold: ages before StartClock in ticks
\* (one pair of payments is less than a day apart), amounts in dollars.
PayAges == {timedelta(10), timedelta(40), timedelta(40) + 1, timedelta(100)}
PayAmounts == {50, 200, 3000}
Methods == {"card"}
Payments ==
    [date : {StartClock - a : a \in PayAges}, amount : PayAmounts, method : Methods]
PaymentLists == UNION {[1..n -> Payments] : n \in 0..MaxPayments}

NoProfile == CustomerEngagement("", "", "")

ReportIdle ==
    /\ data = [customer_id |-> "", email |-> "", name |-> "", payments |-> <<>>]
    /\ profile = NoProfile
    /\ rpc = "idle"
    /\ readings = <<>>
    /\ profile_again = NoProfile

\* A customer's entry of customer_data, in the order the payments arrived
ProfileInit ==
    /\ \E ps \in PaymentLists :
          data = [customer_id |-> "cus_A", email |-> "a@example.com",
                  name |-> "A", payments |-> ps]
    /\ profile = NoProfile
    /\ rpc = "input"
    /\ readings = <<>>
    /\ profile_again = NoProfile

\* The entry once sorted(data['payments'], ...) were list.sort in place
InputSortedInPlace(d) == [d EXCEPT !.payments = sorted(@)]

\* The customer's entry after a call: sorted() builds a new list and no
\* statement of the call assigns to data or to one of its payments
InputAfterAnalysis(d) == d

\* One call _analyze_customer_engagement(cust_id, data)
AnalyzeCustomer ==
    /\ rpc = "input"
    /\ \E now1 \in Clock(StartClock) :
       \E now2 \in Clock(now1) :
          /\ profile' = _analyze_customer_engagement(data.customer_id, data,
                                                     now1, now2)
          /\ readings' = <<<<now1, now2>>>>
    /\ data' = InputAfterAnalysis(data)
    /\ rpc' = "done"
    /\ UNCHANGED <<profile_again, avars, fvars, svars, evars>>

\* A second call on the entry the first call left, at its own readings of the
\* clock, none earlier than the first call's
AnalyzeAgain ==
    /\ rpc = "done"
    /\ \E now1 \in Clock(readings[1][2]) :
       \E now2 \in Clock(now1) :
          /\ profile_again' = _analyze_customer_engagement(data.customer_id, data,
                                                           now1, now2)
          /\ readings' = Append(readings, <<now1, now2>>)
    /\ data' = InputAfterAnalysis(data)
    /\ rpc' = "again"
    /\ UNCHANGED <<profile, avars, fvars, svars, evars>>

\* Payment histories that differ in their dates only: gaps of 0, 10, 20, 30
\* and 60 days between payments of $200, so that with four payments the two
\* halves of a history have a frequency each.
CadenceAges ==
    {timedelta(10), timedelta(40), timedelta(70), timedelta(80), timedelta(90),
     timedelta(100)}
CadencePayments ==
    [date : {StartClock - a : a \in CadenceAges}, amount : {200}, method : Methods]

\* Twelve payments of $200, one every 30 days, the last of them last_age before
\* StartClock
MonthlyPayments(last_age) ==
    [i \in 1..12 |->
        [date |-> StartClock - last_age - timedelta(30) * (12 - i),
         amount |-> 200, method |-> "card"]]
MonthlyAges ==
    {timedelta(10), timedelta(90), timedelta(90) + 1, timedelta(91), timedelta(120)}

Reverse(payments) ==
    [i \in DOMAIN payments |-> payments[Len(payments) + 1 - i]]

CadenceLists ==
    UNION {[1..n -> CadencePayments] : n \in 0..MaxHistory}
        \cup {MonthlyPayments(a) : a \in MonthlyAges}
        \cup {Reverse(MonthlyPayments(a)) : a \in MonthlyAges}

CadenceInit ==
    /\ \E ps \in CadenceLists :
          data = [customer_id |-> "cus_A", email |-> "a@example.com",
                  name |-> "A", payments |-> ps]
    /\ profile = NoProfile
    /\ rpc = "input"
    /\ readings = <<>>
    /\ profile_again = NoProfile

\* Payment histories that differ in their amounts and their order of arrival:
\* 120 is 1.2 x 100 and 80 is 0.8 x 100.
TrendPayments ==
    [date : {StartClock - timedelta(10), StartClock - timedelta(40)},
     amount : {80, 100, 120}, method : Methods]
TrendLists == UNION {[1..n -> TrendPayments] : n \in 0..MaxHistory}

TrendInit ==
    /\ \E ps \in TrendLists :
          data = [customer_id |-> "cus_A", email |-> "a@example.com",
                  name |-> "A", payments |-> ps]
    /\ profile = NoProfile
    /\ rpc = "input"
    /\ readings = <<>>
    /\ profile_again = NoProfile

(***************************************************************************)
(* CustomerEngagementReport.fetch_stripe_data: the loop over the payments  *)
(* stripe lists, the profile of every customer, the sort by spend, and the *)
(* segments computed from self.customers.                                  *)
(***************************************************************************)
\* payment.customer of a payment made without a customer
NoCustomer == ""

\* The PaymentIntents of the period: succeeded ones of no customer and of two
\* customers (a small recent payment, a large recent one, a large old one, in
\* cents), payments that did not succeed, and a succeeded record whose amount
\* is negative.
PaymentIntents ==
    {[status |-> "succeeded", customer |-> c, created |-> StartClock - k[1],
      amount |-> k[2], payment_method |-> "pm_card"] :
        c \in {NoCustomer, "cus_A", "cus_B"},
        k \in {<<timedelta(10), 5000>>, <<timedelta(10), 600000>>,
               <<timedelta(100), 600000>>}}
    \cup
    {[status |-> "requires_payment_method", customer |-> c,
      created |-> StartClock - timedelta(10), amount |-> 5000,
      payment_method |-> "pm_card"] : c \in {NoCustomer, "cus_A"}}
    \cup
    {[status |-> "succeeded", customer |-> "cus_A",
      created |-> StartClock - timedelta(10), amount |-> -5000,
      payment_method |-> "pm_card"]}
Streams == UNION {[1..n -> PaymentIntents] : n \in 0..MaxStream}

\* CustomerEngagementReport._get_customer_details: stripe knows the two
\* customers; the lookup of any other identifier fails and yields no details
_get_customer_details(customer_id) ==
    CASE customer_id = "cus_A" -> [email |-> "a@example.com", name |-> "A"]
      [] customer_id = "cus_B" -> [email |-> "b@example.com", name |-> "B"]
      [] OTHER -> [email |-> "", name |-> ""]

\* CustomerEngagementReport._get_payment_method_details
_get_payment_method_details(payment_method_id) ==
    IF payment_method_id = "" THEN "Unknown" ELSE "card"

\* _process_payment leaving out a payment equal to one the customer has
_process_payment_deduplicating(payment, entries) ==
    LET customer_id ==
            IF payment.customer # NoCustomer THEN payment.customer ELSE "anonymous"
        entry ==
            [date |-> payment.created,
             amount |-> payment.amount \div 100,
             method |-> _get_payment_method_details(payment.payment_method)]
        details == _get_customer_details(customer_id)
    IN  IF \E i \in DOMAIN entries : entries[i].customer_id = customer_id
        THEN [i \in DOMAIN entries |->
                 IF entries[i].customer_id = customer_id
                    /\ \A j \in DOMAIN entries[i].payments :
                          entries[i].payments[j] # entry
                 THEN [entries[i] EXCEPT !.payments = Append(@, entry)]
                 ELSE entries[i]]
        ELSE Append(entries,
                 [customer_id |-> customer_id, email |-> details.email,
                  name |-> details.name, payments |-> <<entry>>])

\* CustomerEngagementReport._process_payment: the entries of customer_data
\* after the payment is filed under its customer's identifier
_process_payment(payment, entries) ==
    LET customer_id ==
            IF payment.customer # NoCustomer THEN payment.customer ELSE "anonymous"
        entry ==
            [date |-> payment.created,
             amount |-> payment.amount \div 100,
             method |-> _get_payment_method_details(payment.payment_method)]
        details == _get_customer_details(customer_id)
    IN  IF \E i \in DOMAIN entries : entries[i].customer_id = customer_id
        THEN [i \in DOMAIN entries |->
                 IF entries[i].customer_id = customer_id
                 THEN [entries[i] EXCEPT !.payments = Append(@, entry)]
                 ELSE entries[i]]
        ELSE Append(entries,
                 [customer_id |-> customer_id, email |-> details.email,
                  name |-> details.name, payments |-> <<entry>>])

\* The lists [_analyze_customer_engagement(cust_id, data) for ... in
\* customer_data.items()] can be: every call reads the clock twice, no reading
\* earlier than the one before it
RECURSIVE ProfilesOf(_, _)
ProfilesOf(entries, last) ==
    IF entries = <<>> THEN {<<>>}
    ELSE UNION {UNION {
             {<<_analyze_customer_engagement(Head(entries).customer_id,
                                             Head(entries), now1, now2)>> \o rest :
                 rest \in ProfilesOf(Tail(entries), now2)} :
             now2 \in Clock(now1)} : now1 \in Clock(last)}

\* list.insert after the profiles whose spend is not smaller: one step of the
\* stable sort in descending order
InsertBySpend(done, c) ==
    LET k == Cardinality({i \in DOMAIN done : done[i].total_spend >= c.total_spend})
    IN  SubSeq(done, 1, k) \o <<c>> \o SubSeq(done, k + 1, Len(done))

\* self.customers.sort(key=lambda x: x.total_spend, reverse=True): stable,
\* customers of equal spend keep their order
RECURSIVE SortByTotalSpend(_)
SortByTotalSpend(profiles) ==
    IF profiles = <<>> THEN <<>>
    ELSE InsertBySpend(SortByTotalSpend(SubSeq(profiles, 1, Len(profiles) - 1)),
                       profiles[Len(profiles)])

\* strftime('%Y-%m-%d') of a date, None for no date
strftime(d) ==
    IF d.none THEN [none |-> TRUE, day |-> 0]
    ELSE [none |-> FALSE, day |-> d.num \div (d.den * TicksPerDay)]

\* CustomerEngagementReport._customer_to_dict
_customer_to_dict(customer) ==
    [name |-> customer.name,
     email |-> customer.email,
     total_spend |-> customer.total_spend,
     transaction_count |-> customer.transaction_count,
     avg_payment_amount |-> customer.avg_payment_amount,
     payment_frequency_days |-> customer.payment_frequency_days,
     spending_trend |-> customer.spending_trend,
     engagement_status |-> customer.engagement_status,
     days_since_last_payment |-> customer.days_since_last_payment,
     last_payment_date |-> strftime(customer.last_payment_date),
     last_payment_amount |-> customer.last_payment_amount,
     engagement_score |-> customer.engagement_score,
     payment_status |-> customer.payment_status,
     historical_engagement |-> customer.historical_engagement,
     days_until_next_payment |-> customer.days_until_next_payment,
     payment_regularity_score |-> customer.payment_regularity_score,
     predicted_next_payment |-> strftime(customer.predicted_next_payment),
     risk_level |-> customer.risk_level]

SegmentNames == {"Stable Customers", "Needs Attention", "Critical Follow-up"}
NoSegments == [s \in SegmentNames |-> <<>>]

\* _calculate_risk_segments with an if in place of the elif: a customer of low
\* risk falls through to the else branch as well
RECURSIVE _calculate_risk_segments_without_elif(_)
_calculate_risk_segments_without_elif(profiles) ==
    IF profiles = <<>> THEN NoSegments
    ELSE LET before ==
                 _calculate_risk_segments_without_elif(
                     SubSeq(profiles, 1, Len(profiles) - 1))
             customer == profiles[Len(profiles)]
             first == IF customer.risk_level = "low"
                      THEN [before EXCEPT !["Stable Customers"] =
                                Append(@, _customer_to_dict(customer))]
                      ELSE before
         IN  IF customer.risk_level = "medium"
             THEN [first EXCEPT !["Needs Attention"] =
                      Append(@, _customer_to_dict(customer))]
             ELSE [first EXCEPT !["Critical Follow-up"] =
                      Append(@, _customer_to_dict(customer))]

\* CustomerEngagementReport._calculate_risk_segments over the customers in
\* their order
RECURSIVE _calculate_risk_segments(_)
_calculate_risk_segments(profiles) ==
    IF profiles = <<>> THEN NoSegments
    ELSE LET before ==
                 _calculate_risk_segments(SubSeq(profiles, 1, Len(profiles) - 1))
             customer == profiles[Len(profiles)]
             segment == IF customer.risk_level = "low" THEN "Stable Customers"
                        ELSE IF customer.risk_level = "medium" THEN "Needs Attention"
                        ELSE "Critical Follow-up"
         IN  [before EXCEPT ![segment] = Append(@, _customer_to_dict(customer))]

FetchIdle ==
    /\ stripe_payments = <<>>
    /\ cursor = 0
    /\ customer_data = <<>>
    /\ customers = <<>>
    /\ segments = NoSegments
    /\ fetch_pc = "idle"

\* CustomerEngagementReport.__init__ and the list stripe answers with
FetchInit ==
    /\ stripe_payments \in Streams
    /\ cursor = 0
    /\ customer_data = <<>>
    /\ customers = <<>>
    /\ segments = NoSegments
    /\ fetch_pc = "fetching"

\* The loop of fetch_stripe_data meets a payment that did not succeed
SkipPayment ==
    /\ fetch_pc = "fetching"
    /\ cursor < Len(stripe_payments)
    /\ stripe_payments[cursor + 1].status # "succeeded"
    /\ cursor' = cursor + 1
    /\ UNCHANGED <<stripe_payments, customer_data, customers, segments, fetch_pc,
                   avars, rvars, fvars, evars>>

\* The loop of fetch_stripe_data files a succeeded payment
ProcessPayment ==
    /\ fetch_pc = "fetching"
    /\ cursor < Len(stripe_payments)
    /\ stripe_payments[cursor + 1].status = "succeeded"
    /\ customer_data' = _process_payment(stripe_payments[cursor + 1], customer_data)
    /\ cursor' = cursor + 1
    /\ UNCHANGED <<stripe_payments, customers, segments, fetch_pc,
                   avars, rvars, fvars, evars>>

\* After the loop: the profile of every customer, sorted by spend
AnalyzeCustomers ==
    /\ fetch_pc = "fetching"
    /\ cursor = Len(stripe_payments)
    /\ \E profiles \in ProfilesOf(customer_data, StartClock) :
          customers' = SortByTotalSpend(profiles)
    /\ fetch_pc' = "fetched"
    /\ UNCHANGED <<stripe_payments, cursor, customer_data, segments,
                   avars, rvars, fvars, evars>>

\* stripe raises while the payments are listed: fetch_stripe_data logs the error
\* and raises it again, self.customers is not assigned
StripeError ==
    /\ fetch_pc = "fetching"
    /\ fetch_pc' = "failed"
    /\ UNCHANGED <<stripe_payments, cursor, customer_data, customers, segments,
                   avars, rvars, fvars, evars>>

(***************************************************************************)
(* export_results: the metrics and the segments of the report, and the     *)
(* files of report_to_display/ and all_reports/.  A file is a name and the *)
(* report it holds; a file below all_reports/ has its directory as well.   *)
(* The wall clock is read in whole seconds, as "%Y%m%d_%H%M%S" prints it.  *)
(***************************************************************************)
FloatAdd(x, y) == Frac(x.num * y.den + y.num * x.den, x.den * y.den)

\* sum() of a list of floats
RECURSIVE SumOfFloats(_)
SumOfFloats(xs) ==
    IF xs = <<>> THEN Frac(0, 1) ELSE FloatAdd(Head(xs), SumOfFloats(Tail(xs)))

\* round(num / den, 2) of a float that is not negative, in hundredths; no mean
\* of the frequencies met here lies halfway between two hundredths
Round2(num, den) == (200 * num + den) \div (2 * den)

MetricNames ==
    {"Total Customers", "Active Customers", "Total Revenue",
     "Active Customer Percentage", "Avg Days Between Payments"}

\* The dictionary returned for an empty self.customers; "$0.00", "0.00%" and
\* 0.00 are held as the hundredths they print
NoMetrics == [m \in MetricNames |-> 0]

\* _calculate_overall_metrics with an undefined frequency counted as 0 days
\* and every customer taken into the mean
_calculate_overall_metrics_nan_as_zero(profiles) ==
    LET total_customers == Len(profiles)
        active == SelectSeq(profiles, LAMBDA c : c.engagement_status = "active")
        valid_frequencies ==
            [i \in DOMAIN profiles |->
                IF profiles[i].payment_frequency_days.nan THEN Frac(0, 1)
                ELSE profiles[i].payment_frequency_days]
        total == SumOfFloats(valid_frequencies)
        total_spend == SumOf([i \in DOMAIN profiles |-> profiles[i].total_spend])
    IN  IF total_customers = 0 THEN NoMetrics
        ELSE [m \in MetricNames |->
                CASE m = "Total Customers" -> total_customers
                  [] m = "Active Customers" -> Len(active)
                  [] m = "Total Revenue" -> 100 * total_spend
                  [] m = "Active Customer Percentage" ->
                        Round2(100 * Len(active), total_customers)
                  [] m = "Avg Days Between Payments" ->
                        Round2(total.num, total.den * Len(valid_frequencies))]

\* CustomerEngagementReport._calculate_overall_metrics over self.customers; the
\* revenue, the percentage and the average are held in hundredths
_calculate_overall_metrics(profiles) ==
    LET total_customers == Len(profiles)
        active == SelectSeq(profiles, LAMBDA c : c.engagement_status = "active")
        valid == SelectSeq(profiles, LAMBDA c : ~c.payment_frequency_days.nan /\ c.transaction_count > 1)
        valid_frequencies == [i \in DOMAIN valid |-> valid[i].payment_frequency_days]
        total == SumOfFloats(valid_frequencies)
        total_spend == SumOf([i \in DOMAIN profiles |-> profiles[i].total_spend])
    IN  IF total_customers = 0 THEN NoMetrics
        ELSE [m \in MetricNames |->
                CASE m = "Total Customers" -> total_customers
                  [] m = "Active Customers" -> Len(active)
                  [] m = "Total Revenue" -> 100 * total_spend
                  [] m = "Active Customer Percentage" ->
                        Round2(100 * Len(active), total_customers)
                  [] m = "Avg Days Between Payments" ->
                        IF valid_frequencies = <<>> THEN 0
                        ELSE Round2(total.num, total.den * Len(valid_frequencies))]

\* f"customer_engagement_report_{timestamp}.json" and f"report_{timestamp}"
report_file(timestamp) == <<"customer_engagement_report", timestamp>>
archive_dir(timestamp) == <<"report", timestamp>>

\* The seconds the wall clock can show from second `last` on
WallClock(last) == last..MaxSeconds

\* A report left in report_to_display/ by a run that ended a second before
OldReport == [call |-> 0, timestamp |-> -1, generation_date |-> -1]

\* The files of report_to_display/ under their names in the directory dir
MovedTo(dir) ==
    {[dir |-> dir, name |-> f.name, report |-> f.report] : f \in report_to_display}

\* The files of all_reports/ that stand where a file of `moved` is to go
Targets_taken(moved) ==
    {g \in all_reports : \E f \in moved : g.dir = f.dir /\ g.name = f.name}

ExportIdle ==
    /\ metrics = NoMetrics
    /\ report_to_display = {}
    /\ all_reports = {}
    /\ os_name = "posix"
    /\ export_clock = 0
    /\ exported = <<>>

\* The two directories before the first export of a process: all_reports/ is
\* empty and report_to_display/ holds no file or one report of an earlier run
ExportInit ==
    /\ metrics = NoMetrics
    /\ report_to_display \in
          {{}, {[name |-> report_file(OldReport.timestamp), report |-> OldReport]}}
    /\ all_reports = {}
    /\ os_name \in {"posix", "nt"}
    /\ export_clock = 0
    /\ exported = <<>>

\* fetch_stripe_data has returned and stripe listed no payment
FetchedNothing ==
    /\ stripe_payments = <<>>
    /\ cursor = 0
    /\ customer_data = <<>>
    /\ customers = <<>>
    /\ segments = NoSegments
    /\ fetch_pc = "fetched"

\* CustomerEngagementReport.export_results.  Path.rename onto a file that
\* exists replaces it on posix and raises FileExistsError on nt, where the call
\* ends before anything is written; report_to_display/ holds one file at most,
\* so no file has been moved when it raises.
export_results ==
    /\ fetch_pc \in {"fetched", "exported"}
    /\ Len(exported) < MaxExports
    /\ \E timestamp \in WallClock(export_clock) :
       \E generation_date \in WallClock(timestamp) :
          LET moved == MovedTo(archive_dir(timestamp))
              report == [call |-> Len(exported) + 1, timestamp |-> timestamp,
                         generation_date |-> generation_date]
          IN  IF os_name = "nt" /\ Targets_taken(moved) # {}
              THEN /\ export_clock' = timestamp
                   /\ UNCHANGED <<metrics, segments, report_to_display,
                                  all_reports, exported, fetch_pc>>
              ELSE /\ all_reports' = (all_reports \ Targets_taken(moved)) \cup moved
                   /\ metrics' = _calculate_overall_metrics(customers)
                   /\ segments' = _calculate_risk_segments(customers)
                   /\ report_to_display' =
                         {[name |-> report_file(timestamp), report |-> report]}
                   /\ exported' = Append(exported, report)
                   /\ export_clock' = generation_date
                   /\ fetch_pc' = "exported"
    /\ UNCHANGED <<stripe_payments, cursor, customer_data, customers, os_name,
                   avars, rvars, fvars>>

\* main: export_results is called once, after fetch_stripe_data
ExportAfterFetch ==
    /\ fetch_pc = "fetched"
    /\ export_results

(***************************************************************************)
(* One call of one classification function on arguments drawn from sets    *)
(* that hold every band edge and its neighbours.                           *)
(***************************************************************************)
CountEdges == {0, 1, 2, 4, 5, 9, 10, 11}
SpendEdges == {0, 499, 500, 999, 1000, 4999, 5000, 5001}
DayEdges == {-1, 0, 30, 31, 60, 61, 90, 91, 180, 181, 270, 271}
FrequencyEdges ==
    {NaN, Frac(-1, 1), Frac(0, 1), Frac(1, 2), Frac(45, 1), Frac(91, 2),
     Frac(90, 1), Frac(181, 2)}
ThresholdEdges == {0, 100, 600, 6000}
Histories == {"new", "consistent", "declining", "dormant", "irregular"}

NoArgs ==
    [fn |-> "none", transaction_count |-> 0, total_spend |-> 0, days |-> 0,
     age |-> 0, payment_frequency |-> NaN, min_spend_threshold |-> 0,
     score |-> 0, historical_engagement |-> "new",
     last_payment_date |-> NoDate, now |-> 0]

ReportScoreArgs ==
    {[NoArgs EXCEPT !.fn = "Report._calculate_engagement_score",
                    !.transaction_count = c, !.total_spend = s, !.days = d,
                    !.payment_frequency = f] :
     c \in CountEdges, s \in SpendEdges,
     d \in {x \in DayEdges : x <= 91}, f \in FrequencyEdges}

\* The analyzer's scorer is given the two instants; age is their distance.
AnalyzerScoreArgs ==
    {[NoArgs EXCEPT !.fn = "Analyzer._calculate_engagement_score",
                    !.transaction_count = c, !.total_spend = s,
                    !.age = timedelta(d) + o, !.min_spend_threshold = t] :
     c \in CountEdges, s \in SpendEdges \cup {99, 100, 599, 600, 5999, 6000},
     d \in {x \in DayEdges : x <= 91}, o \in {0, 1}, t \in ThresholdEdges}

ReasonArgs ==
    {[NoArgs EXCEPT !.fn = "_classify_disengagement_reason",
                    !.transaction_count = c, !.total_spend = s, !.days = d] :
     c \in CountEdges, s \in SpendEdges, d \in DayEdges}

StatusArgs ==
    {[NoArgs EXCEPT !.fn = "_determine_engagement_status",
                    !.score = k, !.days = d, !.historical_engagement = h] :
     k \in 0..10, d \in DayEdges, h \in Histories}

RiskArgs ==
    {[NoArgs EXCEPT !.fn = "_assess_risk_level",
                    !.score = k, !.total_spend = s, !.days = d] :
     k \in 0..10, s \in SpendEdges, d \in DayEdges}

\* _predict_next_payment's arguments: the last payment date or None, the
\* frequency around the days passed (2 x and 1.5 x a frequency of 10, 30 and
\* 30.5 days), and the function's reading of the clock.
PredictDays == {0, 1, 15, 16, 20, 21, 45, 46, 60, 61, 62}
PredictFrequencies ==
    {NaN, Frac(-1, 1), Frac(0, 1), Frac(10, 1), Frac(30, 1), Frac(61, 2)}
PredictArgs ==
    {[NoArgs EXCEPT !.fn = "_predict_next_payment",
                    !.last_payment_date = l, !.payment_frequency = f,
                    !.days = d, !.now = n] :
     l \in {NoDate, DateAt(StartClock - timedelta(50), 1),
            DateAt(StartClock - timedelta(50) - 1, 1)},
     f \in PredictFrequencies, d \in PredictDays, n \in Clock(StartClock)}

NoCall ==
    [called |-> FALSE, score |-> 0, label |-> "", date |-> NoDate, until |-> 0]
Score(n) == [NoCall EXCEPT !.called = TRUE, !.score = n]
Label(l) == [NoCall EXCEPT !.called = TRUE, !.label = l]
Prediction(r) ==
    [NoCall EXCEPT !.called = TRUE, !.label = r[1], !.date = r[2], !.until = r[3]]

FnIdle == fn_args = NoArgs /\ fn_ret = NoCall

FnInit ==
    /\ fn_args \in ReportScoreArgs \cup AnalyzerScoreArgs \cup ReasonArgs
                   \cup StatusArgs \cup RiskArgs \cup PredictArgs
    /\ fn_ret = NoCall

CallReportScore ==
    /\ fn_args.fn = "Report._calculate_engagement_score"
    /\ ~fn_ret.called
    /\ fn_ret' = Score(Report_calculate_engagement_score(
                     fn_args.transaction_count, fn_args.total_spend,
                     fn_args.days, fn_args.payment_frequency))
    /\ UNCHANGED <<fn_args, avars, rvars, svars, evars>>

CallAnalyzerScore ==
    /\ fn_args.fn = "Analyzer._calculate_engagement_score"
    /\ ~fn_ret.called
    /\ fn_ret' = Score(Analyzer_calculate_engagement_score(
                     fn_args.min_spend_threshold, fn_args.transaction_count,
                     fn_args.total_spend, StartClock - fn_args.age, StartClock))
    /\ UNCHANGED <<fn_args, avars, rvars, svars, evars>>

CallClassifyReason ==
    /\ fn_args.fn = "_classify_disengagement_reason"
    /\ ~fn_ret.called
    /\ fn_ret' = Label(_classify_disengagement_reason(
                     fn_args.days, fn_args.transaction_count, fn_args.total_spend))
    /\ UNCHANGED <<fn_args, avars, rvars, svars, evars>>

CallDetermineStatus ==
    /\ fn_args.fn = "_determine_engagement_status"
    /\ ~fn_ret.called
    /\ fn_ret' = Label(_determine_engagement_status(
                     fn_args.score, fn_args.days, fn_args.historical_engagement))
    /\ UNCHANGED <<fn_args, avars, rvars, svars, evars>>

CallAssessRisk ==
    /\ fn_args.fn = "_assess_risk_level"
    /\ ~fn_ret.called
    /\ fn_ret' = Label(_assess_risk_level(
                     fn_args.score, fn_args.total_spend, fn_args.days))
    /\ UNCHANGED <<fn_args, avars, rvars, svars, evars>>

CallPredictNextPayment ==
    /\ fn_args.fn = "_predict_next_payment"
    /\ ~fn_ret.called
    /\ fn_ret' = Prediction(_predict_next_payment(
                     fn_args.last_payment_date, fn_args.payment_frequency,
                     fn_args.days, fn_args.now))
    /\ UNCHANGED <<fn_args, avars, rvars, svars, evars>>

(***************************************************************************)
(*                            Specifications                               *)
(***************************************************************************)

\* The analyzer: construction, load_data, then analyses and target reports.
InitAnalyzer == AnalyzerInit /\ ReportIdle /\ FnIdle /\ FetchIdle /\ ExportIdle
NextAnalyzer ==
    \/ load_data
    \/ analyze_engagement
    \/ generate_engagement_targets
SpecAnalyzer == InitAnalyzer /\ [][NextAnalyzer]_vars

\* One call of a classification function.
AnalyzerIdle ==
    /\ recent_window_months = 3
    /\ historical_window_months = 9
    /\ min_spend_threshold = 100
    /\ df = <<>>
    /\ current_date = StartClock
    /\ recent_customers = <<>>
    /\ historical_customers = <<>>
    /\ disengaged_customers = <<>>
    /\ engagement_targets = <<>>
    /\ apc = "created"
InitFn == AnalyzerIdle /\ ReportIdle /\ FnInit /\ FetchIdle /\ ExportIdle
NextFn ==
    \/ CallReportScore
    \/ CallAnalyzerScore
    \/ CallClassifyReason
    \/ CallDetermineStatus
    \/ CallAssessRisk
    \/ CallPredictNextPayment
SpecFn == InitFn /\ [][NextFn]_vars

\* One call of the per-customer pipeline on a payment list.
InitProfile == AnalyzerIdle /\ ProfileInit /\ FnIdle /\ FetchIdle /\ ExportIdle
NextProfile == AnalyzeCustomer
SpecProfile == InitProfile /\ [][NextProfile]_vars

\* The same call on histories of up to MaxHistory payments and on the
\* twelve-payment monthly history.
InitCadence == AnalyzerIdle /\ CadenceInit /\ FnIdle /\ FetchIdle /\ ExportIdle
NextCadence == AnalyzeCustomer
SpecCadence == InitCadence /\ [][NextCadence]_vars

InitTrend == AnalyzerIdle /\ TrendInit /\ FnIdle /\ FetchIdle /\ ExportIdle
NextTrend ==
    \/ AnalyzeCustomer
    \/ AnalyzeAgain
SpecTrend == InitTrend /\ [][NextTrend]_vars

\* One run of fetch_stripe_data followed by the segments of the report.
InitFetch == AnalyzerIdle /\ ReportIdle /\ FnIdle /\ FetchInit /\ ExportIdle
NextFetch ==
    \/ SkipPayment
    \/ ProcessPayment
    \/ AnalyzeCustomers
    \/ StripeError
    \/ ExportAfterFetch
SpecFetch == InitFetch /\ [][NextFetch]_vars

\* Calls of export_results on a report whose fetch found no payment.
InitExport == AnalyzerIdle /\ ReportIdle /\ FnIdle /\ FetchedNothing /\ ExportInit
NextExport == export_results
SpecExport == InitExport /\ [][NextExport]_vars

Init == InitAnalyzer
Next == NextAnalyzer
Spec == SpecAnalyzer

(***************************************************************************)
(*                               Properties                                *)
(***************************************************************************)

IsReportScorer == fn_args.fn = "Report._calculate_engagement_score"
IsAnalyzerScorer == fn_args.fn = "Analyzer._calculate_engagement_score"

\* C1: whatever the transaction count, the spend, the days since the last
\* payment, the payment frequency (NaN included) and the spend threshold, each of
\* the two scorers returns a score in [0, 10], and the input that earns the top
\* band of every sub-score earns exactly 10.
C1_ScoreWithinZeroAndTen ==
    /\ (fn_ret.called /\ (IsReportScorer \/ IsAnalyzerScorer)) =>
           (fn_ret.score >= 0 /\ fn_ret.score <= 10)
    /\ (/\ fn_ret.called
        /\ IsReportScorer
        /\ fn_args.transaction_count >= 10
        /\ fn_args.total_spend >= 5000
        /\ fn_args.days <= 30
        /\ ~fn_args.payment_frequency.nan
        /\ fn_args.payment_frequency.num > 0
        /\ fn_args.payment_frequency.num <= 45 * fn_args.payment_frequency.den)
           => fn_ret.score = 10
    /\ (/\ fn_ret.called
        /\ IsAnalyzerScorer
        /\ fn_args.transaction_count >= 10
        /\ fn_args.total_spend >= 5000
        /\ fn_args.age < timedelta(31))
           => fn_ret.score = 10

\* C1, witness: the analyzer's scorer reaches 10 under a threshold above 5000.
C1_Witness ==
    /\ fn_ret.called
    /\ IsAnalyzerScorer
    /\ fn_args.min_spend_threshold > 5000
    /\ fn_ret.score = 10

\* C2: every profile of a customer with fewer than 2 payments has the undefined
\* sentinel (NaN) as payment_frequency_days, never 0.
C2_FrequencyUndefinedBelowTwoPayments ==
    (rpc = "done" /\ profile.transaction_count < 2) =>
        /\ profile.payment_frequency_days.nan
        /\ profile.payment_frequency_days # Frac(0, 1)

\* C3: a customer with zero payments gets an identity-only profile with
\* engagement_score 0, payment_status "unknown", historical_engagement "new" and
\* no predicted_next_payment.
C3_ZeroPaymentsNeutralDefaults ==
    (rpc = "done" /\ data.payments = <<>>) =>
        /\ profile.customer_id = data.customer_id
        /\ profile.engagement_score = 0
        /\ profile.payment_status = "unknown"
        /\ profile.historical_engagement = "new"
        /\ profile.predicted_next_payment.none

Analyzed == apc \in {"analyzed", "targets"}

RowsOf(frame) == {frame[i] : i \in DOMAIN frame}

\* C4: after every analysis the disengaged customers are the historical ones
\* whose customer_id is not among the recent ones: each is historical, and no
\* customer_id is both disengaged and recent.
C4_DisengagedIsHistoricalMinusRecent ==
    Analyzed =>
        /\ IdsOf(disengaged_customers)
               = IdsOf(historical_customers) \ IdsOf(recent_customers)
        /\ RowsOf(disengaged_customers) \subseteq RowsOf(historical_customers)
        /\ IdsOf(disengaged_customers) \cap IdsOf(recent_customers) = {}

\* C4, witness: one historical customer is kept out because it is recent too,
\* another is disengaged.
C4_Witness ==
    /\ Analyzed
    /\ IdsOf(historical_customers) \cap IdsOf(recent_customers) # {}
    /\ disengaged_customers # <<>>

\* The time since a row's last payment at the instant of the analysis, and the
\* two windows as durations.
AgeOf(row) == current_date - row.last_payment_date
RecentWindow == timedelta(recent_window_months * 30)
WholeWindow == timedelta((recent_window_months + historical_window_months) * 30)

\* C5, as stated: a customer is historical iff its last payment lies strictly
\* between the historical cutoff and the recent cutoff, both excluded, and its
\* spend is at least the threshold.
C5_HistoricalStrictlyBetween ==
    Analyzed =>
        \A row \in RowsOf(df) :
            row \in RowsOf(historical_customers) <=>
                /\ AgeOf(row) > RecentWindow
                /\ AgeOf(row) < WholeWindow
                /\ row.total_spend >= min_spend_threshold

\* C5, amended: a customer is historical iff its last payment is at or after
\* the historical cutoff and strictly before the recent cutoff, and its spend is
\* at least the threshold.
C5_HistoricalFromCutoffIncluded ==
    Analyzed =>
        \A row \in RowsOf(df) :
            row \in RowsOf(historical_customers) <=>
                /\ AgeOf(row) > RecentWindow
                /\ AgeOf(row) <= WholeWindow
                /\ row.total_spend >= min_spend_threshold

\* C5, witness: a customer whose last payment is at the historical cutoff
\* itself is in the historical set.
C5_Witness ==
    /\ Analyzed
    /\ \E row \in RowsOf(historical_customers) : AgeOf(row) = WholeWindow

\* C6: a customer is recent/engaged iff its score is at least 7, or its last
\* payment is within the recent window and its spend is at least twice the
\* threshold; recent activity with less spend and a score below 7 is not enough.
C6_RecentIffScoreOrRecentSpend ==
    Analyzed =>
        \A row \in RowsOf(df) :
            row \in RowsOf(recent_customers) <=>
                \/ row.engagement_score >= 7
                \/ /\ AgeOf(row) <= RecentWindow
                   /\ row.total_spend >= 2 * min_spend_threshold

\* C6, witness: a customer with recent activity, a spend between the threshold
\* and twice the threshold and a score below 7 is not in the recent set.
C6_Witness ==
    /\ Analyzed
    /\ \E row \in RowsOf(df) :
          /\ AgeOf(row) <= RecentWindow
          /\ row.total_spend >= min_spend_threshold
          /\ row.total_spend < 2 * min_spend_threshold
          /\ row.engagement_score < 7
          /\ row \notin RowsOf(recent_customers)

\* The configuration and the customer of the scenario: threshold 100, windows
\* of 3 and 9 months, 3 transactions totalling 10500, last payment 90 whole
\* days before the analysis.
ScenarioConfig ==
    /\ min_spend_threshold = 100
    /\ recent_window_months = 3
    /\ historical_window_months = 9
ScenarioRow(row) ==
    /\ row.transaction_count = 3
    /\ row.total_spend = 10500
    /\ days(AgeOf(row)) = 90
ScenarioOutcome(row) ==
    /\ row \notin RowsOf(recent_customers)
    /\ row \in RowsOf(historical_customers)
    /\ row \in RowsOf(disengaged_customers)
    /\ apc = "targets" =>
          \E i \in DOMAIN engagement_targets :
              /\ engagement_targets[i].customer_id = row.customer_id
              /\ engagement_targets[i].days_since_last_transaction = 90 =>
                     engagement_targets[i].disengagement_reason
                         = "High-value customer at risk"

\* C7, as stated: the scenario customer, last payment 90 days ago, is not
\* recent, is historical, is disengaged and gets the reason "High-value customer
\* at risk".
C7_ScenarioNinetyDays ==
    (Analyzed /\ ScenarioConfig) =>
        \A row \in RowsOf(df) : ScenarioRow(row) => ScenarioOutcome(row)

\* C7, amended: the same, for a last payment 90 whole days old and strictly
\* older than the recent cutoff (more than 90 days to the tick).
C7_ScenarioOlderThanCutoff ==
    (Analyzed /\ ScenarioConfig) =>
        \A row \in RowsOf(df) :
            (ScenarioRow(row) /\ AgeOf(row) > timedelta(90)) => ScenarioOutcome(row)

\* C7, witness: the scenario customer is listed among the targets as a
\* high-value customer at risk.
C7_Witness ==
    /\ apc = "targets"
    /\ ScenarioConfig
    /\ \E row \in RowsOf(df) :
          /\ ScenarioRow(row)
          /\ AgeOf(row) > timedelta(90)
          /\ \E i \in DOMAIN engagement_targets :
                /\ engagement_targets[i].customer_id = row.customer_id
                /\ engagement_targets[i].days_since_last_transaction = 90
                /\ engagement_targets[i].disengagement_reason
                       = "High-value customer at risk"

\* C8: the disengagement reason is, first match winning, "Long-term inactive"
\* for more than 270 days inactive, else "Low engagement history" for at most 2
\* transactions, else "High-value customer at risk" for a spend above 5000, else
\* "Standard churn risk"; a spend above 5000 is labelled high-value only with at
\* most 270 days inactive and at least 3 transactions.
C8_ReasonCascade ==
    (fn_ret.called /\ fn_args.fn = "_classify_disengagement_reason") =>
        /\ fn_args.days > 270 => fn_ret.label = "Long-term inactive"
        /\ (fn_args.days <= 270 /\ fn_args.transaction_count <= 2) =>
               fn_ret.label = "Low engagement history"
        /\ (fn_args.days <= 270 /\ fn_args.transaction_count > 2
                /\ fn_args.total_spend > 5000) =>
               fn_ret.label = "High-value customer at risk"
        /\ (fn_args.days <= 270 /\ fn_args.transaction_count > 2
                /\ fn_args.total_spend <= 5000) =>
               fn_ret.label = "Standard churn risk"
        /\ fn_ret.label = "High-value customer at risk" =>
               (fn_args.days <= 270 /\ fn_args.transaction_count >= 3)

\* C8, witness: a spend above 5000 with 2 transactions is a low engagement
\* history, not a high-value customer.
C8_Witness ==
    /\ fn_ret.called
    /\ fn_args.fn = "_classify_disengagement_reason"
    /\ fn_args.total_spend > 5000
    /\ fn_args.transaction_count = 2
    /\ fn_args.days <= 270
    /\ fn_ret.label = "Low engagement history"

\* C9: the engagement status is, first match winning, potential_reengagement
\* for a dormant history with score >= 5, active for score >= 7, active for
\* score >= 4 at most 180 days after the last payment, disengaged for a
\* declining or dormant history, else inactive; a dormant customer with score
\* >= 7 is potential_reengagement.
C9_StatusCascade ==
    (fn_ret.called /\ fn_args.fn = "_determine_engagement_status") =>
        LET dormant == fn_args.historical_engagement = "dormant"
            first == dormant /\ fn_args.score >= 5
            second == fn_args.score >= 7
            third == fn_args.score >= 4 /\ fn_args.days <= 180
            fourth == fn_args.historical_engagement \in {"declining", "dormant"}
        IN  /\ first => fn_ret.label = "potential_reengagement"
            /\ (~first /\ (second \/ third)) => fn_ret.label = "active"
            /\ (~first /\ ~second /\ ~third /\ fourth) => fn_ret.label = "disengaged"
            /\ (~first /\ ~second /\ ~third /\ ~fourth) => fn_ret.label = "inactive"
            /\ (dormant /\ fn_args.score >= 7) => fn_ret.label # "active"

\* C9, witness: a dormant customer with a score of at least 7 is a potential
\* re-engagement.
C9_Witness ==
    /\ fn_ret.called
    /\ fn_args.fn = "_determine_engagement_status"
    /\ fn_args.historical_engagement = "dormant"
    /\ fn_args.score >= 7
    /\ fn_ret.label = "potential_reengagement"

\* C10: the risk level is low for score >= 7 whatever the spend and recency;
\* otherwise, for a spend of at least 5000, high after more than 90 days and
\* medium if not; otherwise high after more than 180 days, medium after more
\* than 90 days and low if not.
C10_RiskLevel ==
    (fn_ret.called /\ fn_args.fn = "_assess_risk_level") =>
        /\ fn_args.score >= 7 => fn_ret.label = "low"
        /\ (fn_args.score < 7 /\ fn_args.total_spend >= 5000) =>
               fn_ret.label = (IF fn_args.days > 90 THEN "high" ELSE "medium")
        /\ (fn_args.score < 7 /\ fn_args.total_spend < 5000) =>
               fn_ret.label = (IF fn_args.days > 180 THEN "high"
                               ELSE IF fn_args.days > 90 THEN "medium"
                               ELSE "low")

\* C10, witness: a high spender long inactive is low risk on a score of 7.
C10_Witness ==
    /\ fn_ret.called
    /\ fn_args.fn = "_assess_risk_level"
    /\ fn_args.score >= 7
    /\ fn_args.total_spend >= 5000
    /\ fn_args.days > 180
    /\ fn_ret.label = "low"

IsPrediction == fn_args.fn = "_predict_next_payment"

\* C11: _predict_next_payment returns "unknown" and no date when the frequency
\* is undefined or there is no last payment; otherwise the predicted date is
\* the last payment date plus the frequency in days, and the status is
\* "at_risk" when the days since the last payment exceed twice the frequency,
\* else "overdue" when they exceed 1.5 times it, else "on_track": an input
\* over both thresholds is "at_risk".
C11_PredictNextPayment ==
    (fn_ret.called /\ IsPrediction) =>
        LET f == fn_args.payment_frequency
            last == fn_args.last_payment_date
            d == fn_args.days
        IN  IF f.nan \/ last.none
            THEN fn_ret.label = "unknown" /\ fn_ret.date.none
            ELSE /\ ~fn_ret.date.none
                 /\ fn_ret.date.num * last.den * f.den =
                        (last.num * f.den + timedelta(f.num) * last.den)
                            * fn_ret.date.den
                 /\ fn_ret.label =
                        IF d * f.den > 2 * f.num THEN "at_risk"
                        ELSE IF 2 * d * f.den > 3 * f.num THEN "overdue"
                        ELSE "on_track"
                 /\ (d * f.den > 2 * f.num /\ 2 * d * f.den > 3 * f.num) =>
                        fn_ret.label = "at_risk"

\* A call with a frequency of 30 days and more than 60 days passed, which is
\* over both thresholds, answered "at_risk" with a predicted date.
C11_Witness ==
    /\ fn_ret.called
    /\ IsPrediction
    /\ fn_args.payment_frequency = Frac(30, 1)
    /\ fn_args.days = 61
    /\ ~fn_args.last_payment_date.none
    /\ fn_ret.label = "at_risk"
    /\ fn_ret.date = DateAt(fn_args.last_payment_date.num + timedelta(30), 1)

Profiled == rpc \in {"done", "again"}

\* The frequency of the first and of the second half of a sorted history
FirstHalf(payments) ==
    _calculate_payment_frequency(SubSeq(payments, 1, Len(payments) \div 2))
SecondHalf(payments) ==
    _calculate_payment_frequency(
        SubSeq(payments, Len(payments) \div 2 + 1, Len(payments)))

Dormant(p) ==
    p.days_since_last_payment * p.payment_frequency_days.den
        > 3 * p.payment_frequency_days.num

SpendOf(payments, i, j) == SumOf(Amounts(SubSeq(payments, i, j)))

C14_RegularityWithinZeroAndOne ==
    Profiled =>
        LET r == profile.payment_regularity_score
            f == profile.payment_frequency_days
        IN  /\ (profile.transaction_count < 3 \/ f.nan \/ f.num = 0) => r.zero
            /\ ~r.zero => (r.s > 0 /\ r.qn >= 0 /\ r.qd > 0)

\* Three or more payments on one day: the frequency is 0 and the score 0.0
C14_Witness ==
    /\ Profiled
    /\ profile.transaction_count >= 3
    /\ ~profile.payment_frequency_days.nan
    /\ profile.payment_frequency_days.num = 0
    /\ profile.payment_regularity_score = RegularityZero

\* C15: the report's score is the sum of four bands: transaction count
\* (>= 10: 3, >= 5: 2, >= 2: 1, else 0), total spend (>= 5000: 3, >= 1000: 2,
\* >= 500: 1, else 0), days since the last payment (<= 30: 2, <= 90: 1, else 0)
\* and payment frequency (> 0 and <= 45: 2, > 0 and <= 90: 1, else 0); an
\* undefined frequency and a frequency of 0 earn 0 in the last band.
C15_ReportScoreIsSumOfBands ==
    (fn_ret.called /\ IsReportScorer) =>
        LET c == fn_args.transaction_count
            t == fn_args.total_spend
            d == fn_args.days
            f == fn_args.payment_frequency
            positive == ~f.nan /\ f.num > 0
            count_band == CASE c >= 10 -> 3 [] c >= 5 /\ c < 10 -> 2
                            [] c >= 2 /\ c < 5 -> 1 [] OTHER -> 0
            spend_band == CASE t >= 5000 -> 3 [] t >= 1000 /\ t < 5000 -> 2
                            [] t >= 500 /\ t < 1000 -> 1 [] OTHER -> 0
            days_band == CASE d <= 30 -> 2 [] d > 30 /\ d <= 90 -> 1 [] OTHER -> 0
            frequency_band ==
                CASE positive /\ f.num <= 45 * f.den -> 2
                  [] positive /\ f.num > 45 * f.den /\ f.num <= 90 * f.den -> 1
                  [] OTHER -> 0
        IN  /\ fn_ret.score = count_band + spend_band + days_band + frequency_band
            /\ (f.nan \/ f.num = 0) =>
                   fn_ret.score = count_band + spend_band + days_band

\* A call with a frequency of 0 and the top band of the three other sub-scores
\* returned 3 + 3 + 2 + 0.
C15_Witness ==
    /\ fn_ret.called
    /\ IsReportScorer
    /\ fn_args.payment_frequency = Frac(0, 1)
    /\ fn_args.transaction_count = 10
    /\ fn_args.total_spend = 5000
    /\ fn_args.days = 30
    /\ fn_ret.score = 8

\* The customer of the scenario: one payment of $50, 10 days before StartClock
SinglePayment ==
    data.payments =
        <<[date |-> StartClock - timedelta(10), amount |-> 50, method |-> "card"]>>

\* C16: a customer with a single payment of $50 made 10 days ago has an
\* undefined frequency, regularity 0.0, spending_trend "insufficient_data" and
\* historical_engagement "new"; the report's score is 2 (0 for the count, 0 for
\* the spend, the top 2 for the recency, 0 for the frequency), payment_status is
\* "unknown" and engagement_status "inactive"; under min_spend_threshold = 100
\* the analyzer's scorer gives the same customer 0 + 0 + the top recency 3.
C16_SinglePaymentScenario ==
    (Profiled /\ SinglePayment) =>
        /\ profile.payment_frequency_days.nan
        /\ profile.payment_regularity_score = RegularityZero
        /\ profile.spending_trend = "insufficient_data"
        /\ profile.historical_engagement = "new"
        /\ profile.days_since_last_payment = 10
        /\ profile.engagement_score = 2
        /\ profile.payment_status = "unknown"
        /\ profile.predicted_next_payment = NoDate
        /\ profile.engagement_status = "inactive"
        /\ \A now \in Clock(StartClock) :
              Analyzer_calculate_engagement_score(100, profile.transaction_count,
                  profile.total_spend, profile.last_payment_date.num, now) = 3

C16_Witness ==
    /\ Profiled
    /\ SinglePayment
    /\ profile.transaction_count = 1
    /\ profile.total_spend = 50
    /\ profile.engagement_score = 2
    /\ profile.engagement_status = "inactive"

\* A profile of twelve payments of $200, each 30 days after the one before
Monthly(p) ==
    /\ Len(p.payment_history) = 12
    /\ \A i \in 1..12 : p.payment_history[i].amount = 200
    /\ \A i \in 1..11 :
          p.payment_history[i + 1].date - p.payment_history[i].date = timedelta(30)

\* 1 / (1 + stdev / avg) = 1.0: the gaps have no deviation
RegularityIsOne(r) == ~r.zero /\ r.s > 0 /\ r.qn = 0

\* C17, as the spec states it: the customer with 12 payments of $200 evenly
\* spaced every 30 days has payment_regularity_score 1.0, spending_trend
\* "stable" and historical_engagement "consistent", however long ago the last of
\* the payments was made.
C17_MonthlyCustomerConsistent ==
    (Profiled /\ Monthly(profile)) =>
        /\ RegularityIsOne(profile.payment_regularity_score)
        /\ profile.spending_trend = "stable"
        /\ profile.historical_engagement = "consistent"

\* C17, amended: the same customer has payment_regularity_score 1.0 and
\* spending_trend "stable"; historical_engagement is "consistent" when the last
\* payment was made at most 90 days (3 x the frequency of 30 days) before the
\* evaluation, and "dormant" when it was made more than 90 days before.
C17_MonthlyCustomerConsistentUnlessDormant ==
    (Profiled /\ Monthly(profile)) =>
        /\ profile.payment_frequency_days.num = 30 * profile.payment_frequency_days.den
        /\ RegularityIsOne(profile.payment_regularity_score)
        /\ profile.spending_trend = "stable"
        /\ profile.historical_engagement =
               IF profile.days_since_last_payment <= 90 THEN "consistent"
               ELSE "dormant"

\* The monthly customer whose last payment is 91 days old, labelled "dormant",
\* from payments that arrived latest first.
C17_Witness ==
    /\ Profiled
    /\ Monthly(profile)
    /\ data.payments # profile.payment_history
    /\ profile.days_since_last_payment = 91
    /\ profile.historical_engagement = "dormant"
    /\ RegularityIsOne(profile.payment_regularity_score)

\* C18: in every profile transaction_count is the length of payment_history,
\* total_spend the sum of its amounts, payment_history holds the customer's
\* payments sorted by date ascending, and last_payment_date, last_payment_amount
\* and last_payment_method are those of its last entry, whose date is the
\* latest.
C18_ProfileAggregates ==
    Profiled =>
        LET ps == profile.payment_history
            n == Len(ps)
        IN  /\ profile.transaction_count = n
            /\ profile.total_spend = SumOf(Amounts(ps))
            /\ \A i \in 1..(n - 1) : ps[i].date <= ps[i + 1].date
            /\ n = Len(data.payments)
            /\ \A x \in Payments :
                  Cardinality({i \in 1..n : ps[i] = x}) =
                      Cardinality({i \in 1..n : data.payments[i] = x})
            /\ n >= 1 =>
                  /\ profile.last_payment_date = DateAt(ps[n].date, 1)
                  /\ profile.last_payment_amount = ps[n].amount
                  /\ profile.last_payment_method = ps[n].method
                  /\ \A i \in 1..n : ps[i].date <= profile.last_payment_date.num

\* Three payments that arrived latest first
C18_Witness ==
    /\ Profiled
    /\ Len(data.payments) = 3
    /\ data.payments[1].date > data.payments[2].date
    /\ data.payments[2].date > data.payments[3].date
    /\ profile.payment_history = Reverse(data.payments)
    /\ profile.last_payment_amount = data.payments[1].amount

Fetched == fetch_pc \in {"fetched", "exported"}

\* The identifier a payment is filed under, and the entry it leaves
CustomerIdOf(payment) ==
    IF payment.customer = NoCustomer THEN "anonymous" ELSE payment.customer
EntryOf(payment) ==
    [date |-> payment.created, amount |-> payment.amount \div 100,
     method |-> _get_payment_method_details(payment.payment_method)]

\* The succeeded payments of the stream that belong to customer_id and leave
\* the entry x
SucceededOf(customer_id, x) ==
    {k \in DOMAIN stripe_payments :
        /\ stripe_payments[k].status = "succeeded"
        /\ CustomerIdOf(stripe_payments[k]) = customer_id
        /\ EntryOf(stripe_payments[k]) = x}

\* C19: after fetch_stripe_data there is exactly one profile per distinct
\* customer identifier among the succeeded payments (payments without a
\* customer share "anonymous"); every succeeded payment is in the
\* payment_history of its customer's profile as many times as it was listed,
\* and a payment that did not succeed is in no profile.
C19_OneProfilePerCustomer ==
    Fetched =>
        /\ \A i, j \in DOMAIN customers :
              i # j => customers[i].customer_id # customers[j].customer_id
        /\ {customers[i].customer_id : i \in DOMAIN customers} =
               {CustomerIdOf(stripe_payments[k]) :
                   k \in {m \in DOMAIN stripe_payments :
                             stripe_payments[m].status = "succeeded"}}
        /\ \A i \in DOMAIN customers :
              LET history == customers[i].payment_history
                  id == customers[i].customer_id
              IN  /\ \A x \in {EntryOf(q) : q \in PaymentIntents} :
                        Cardinality({j \in DOMAIN history : history[j] = x}) =
                            Cardinality(SucceededOf(id, x))
                  /\ Len(history) =
                        Cardinality(
                            {k \in DOMAIN stripe_payments :
                                /\ stripe_payments[k].status = "succeeded"
                                /\ CustomerIdOf(stripe_payments[k]) = id})

\* Two equal succeeded payments without a customer and a payment that did not
\* succeed: one profile, "anonymous", with the two payments.
C19_Witness ==
    /\ Fetched
    /\ Len(stripe_payments) = 3
    /\ stripe_payments[1] = stripe_payments[3]
    /\ stripe_payments[1].status = "succeeded"
    /\ stripe_payments[1].customer = NoCustomer
    /\ stripe_payments[2].status # "succeeded"
    /\ Len(customers) = 1
    /\ customers[1].customer_id = "anonymous"
    /\ customers[1].transaction_count = 2

SegmentOf(risk_level) ==
    CASE risk_level = "low" -> "Stable Customers"
      [] risk_level = "medium" -> "Needs Attention"
      [] risk_level = "high" -> "Critical Follow-up"

\* The customers of a segment, in the order of self.customers
RECURSIVE CustomersIn(_, _)
CustomersIn(profiles, s) ==
    IF profiles = <<>> THEN <<>>
    ELSE IF SegmentOf(Head(profiles).risk_level) = s
    THEN <<_customer_to_dict(Head(profiles))>> \o CustomersIn(Tail(profiles), s)
    ELSE CustomersIn(Tail(profiles), s)

\* C20: _calculate_risk_segments places every customer in exactly one of the
\* three segments, chosen by risk_level alone: low in "Stable Customers",
\* medium in "Needs Attention", high in "Critical Follow-up"; the three lists
\* partition the customer list.
C20_SegmentsPartitionCustomers ==
    fetch_pc = "exported" =>
        /\ \A i \in DOMAIN customers :
              customers[i].risk_level \in {"low", "medium", "high"}
        /\ \A s \in SegmentNames : segments[s] = CustomersIn(customers, s)
        /\ \A s \in SegmentNames : \A j \in DOMAIN segments[s] :
              SegmentOf(segments[s][j].risk_level) = s
        /\ Len(segments["Stable Customers"]) + Len(segments["Needs Attention"])
               + Len(segments["Critical Follow-up"]) = Len(customers)

\* Three customers, one of each risk level, one in each segment
C20_Witness ==
    /\ fetch_pc = "exported"
    /\ Len(customers) = 3
    /\ \A s \in SegmentNames : Len(segments[s]) = 1
    /\ segments["Stable Customers"][1].risk_level = "low"
    /\ segments["Needs Attention"][1].risk_level = "medium"
    /\ segments["Critical Follow-up"][1].risk_level = "high"

\* The monetary sub-score of each scorer: the score of a customer whose other
\* sub-scores are 0 (one transaction, last payment long ago, no frequency)
ReportMonetary(total_spend) ==
    Report_calculate_engagement_score(1, total_spend, 1000, NaN)
AnalyzerMonetary(threshold, total_spend) ==
    Analyzer_calculate_engagement_score(threshold, 1, total_spend,
                                        StartClock - timedelta(1000), StartClock)

\* The customer's entry with the amount of payment i raised to a
Raised(i, a) ==
    [data EXCEPT !.payments = [data.payments EXCEPT ![i].amount = a]]

\* C21: raising the amount of any one transaction, all else fixed, never
\* lowers the customer's total_spend and never lowers the monetary sub-score
\* of the report's scorer nor of the analyzer's, whatever min_spend_threshold
\* is (thresholds above 500 included).
C21_MonetaryMonotone ==
    Profiled =>
        \A i \in DOMAIN data.payments :
        \A a \in {x \in PayAmounts : x > data.payments[i].amount} :
            LET raised ==
                    _analyze_customer_engagement(data.customer_id, Raised(i, a),
                                                 StartClock, StartClock)
            IN  /\ raised.total_spend >= profile.total_spend
                /\ ReportMonetary(raised.total_spend)
                       >= ReportMonetary(profile.total_spend)
                /\ \A t \in ThresholdEdges :
                      AnalyzerMonetary(t, raised.total_spend)
                          >= AnalyzerMonetary(t, profile.total_spend)

\* Three payments of $200, $200 and $50: raising the last to $200 takes the
\* total from 450 to 600, across 500 and up to a threshold of 600.
C21_Witness ==
    /\ Profiled
    /\ profile.total_spend = 450
    /\ Len(data.payments) = 3
    /\ data.payments[3].amount = 50
    /\ AnalyzerMonetary(600, 450) = 0
    /\ AnalyzerMonetary(600, 600) = 2
    /\ ReportMonetary(450) = 0
    /\ ReportMonetary(600) = 1

C23_NegativeAmountRejected ==
    Fetched =>
        \A i \in DOMAIN customers :
        \A j \in DOMAIN customers[i].payment_history :
            customers[i].payment_history[j].amount >= 0

\* C24: an analyzer built with a negative min_spend_threshold, or with a
\* window that is negative or zero, is rejected when it is configured: no
\* customer is scored or classified by analyze_engagement under it.
C24_InvalidConfigurationRejected ==
    Analyzed =>
        /\ min_spend_threshold >= 0
        /\ recent_window_months > 0
        /\ historical_window_months > 0

\* C30: with the recent window at 3 months, a historical customer whose last
\* payment is more than 90 whole days old has recency sub-score 0, and it is
\* kept out of the disengaged set if and only if transaction_count >= 10 and
\* total_spend >= 5000, which is a score of exactly 7; every other such
\* customer is disengaged, whatever min_spend_threshold is.
C30_OldHistoricalDisengagedUnlessTopTiers ==
    (Analyzed /\ recent_window_months = 3) =>
        \A row \in RowsOf(historical_customers) :
            days(AgeOf(row)) > 90 =>
                LET top == row.transaction_count >= 10 /\ row.total_spend >= 5000
                IN  /\ row.engagement_score =
                           Analyzer_calculate_engagement_score(
                               min_spend_threshold, row.transaction_count,
                               row.total_spend, current_date - timedelta(1000),
                               current_date)
                    /\ row.customer_id \notin IdsOf(disengaged_customers) <=> top
                    /\ top => row.engagement_score = 7
                    /\ ~top => row.engagement_score < 7

\* Two historical customers 91 days old: one with 10 transactions and $10500 is
\* kept out of the disengaged set, one with 3 transactions is in it.
C30_Witness ==
    /\ Analyzed
    /\ recent_window_months = 3
    /\ \E row \in RowsOf(historical_customers) :
          /\ days(AgeOf(row)) = 91
          /\ row.transaction_count = 10
          /\ row.total_spend = 10500
          /\ row.engagement_score = 7
          /\ row.customer_id \notin IdsOf(disengaged_customers)
    /\ \E row \in RowsOf(disengaged_customers) :
          /\ days(AgeOf(row)) = 91
          /\ row.transaction_count = 3
          /\ row.total_spend = 10500

\* The customers of a list whose frequency is defined and who paid more than once
Qualifying(profiles) ==
    {i \in DOMAIN profiles :
        /\ ~profiles[i].payment_frequency_days.nan
        /\ profiles[i].transaction_count > 1}

\* The sum of the frequencies of the customers Q of a list
RECURSIVE FrequencyTotal(_, _)
FrequencyTotal(profiles, Q) ==
    IF Q = {} THEN Frac(0, 1)
    ELSE LET i == CHOOSE j \in Q : TRUE
         IN  FloatAdd(profiles[i].payment_frequency_days,
                      FrequencyTotal(profiles, Q \ {i}))

\* C25: after any sequence of export_results calls report_to_display holds
\* exactly one file, the report written by the latest call, and every report
\* written by an earlier call is still a file below all_reports, also when
\* several calls read the same timestamp second.
C25_NoReportLost ==
    exported # <<>> =>
        LET latest == exported[Len(exported)]
        IN  /\ report_to_display =
                  {[name |-> report_file(latest.timestamp), report |-> latest]}
            /\ \A i \in 1..(Len(exported) - 1) :
                  \E g \in all_reports : g.report = exported[i]

\* C26: in the metrics of an export "Avg Days Between Payments" is the mean
\* (printed to two decimals) of payment_frequency_days over exactly the
\* customers with a defined frequency and more than one transaction, it is 0
\* when no customer qualifies, it is what the customers with 2 or more payments
\* alone would give, and "Active Customers" is the number of customers whose
\* engagement_status is "active".
C26_AverageOverQualifyingCustomers ==
    fetch_pc = "exported" =>
        LET Q == Qualifying(customers)
            total == FrequencyTotal(customers, Q)
            avg == metrics["Avg Days Between Payments"]
        IN  /\ Q = {} => avg = 0
            /\ Q # {} =>
                  2 * Abs(avg * total.den * Cardinality(Q) - 100 * total.num)
                      <= total.den * Cardinality(Q)
            /\ avg = _calculate_overall_metrics(
                        SelectSeq(customers, LAMBDA c : c.transaction_count >= 2)
                     )["Avg Days Between Payments"]
            /\ metrics["Active Customers"] =
                  Cardinality({i \in DOMAIN customers :
                                  customers[i].engagement_status = "active"})

\* An export over a customer with one payment, whose frequency is undefined, and
\* a customer with a frequency above 0, one of the two not active
C26_Witness ==
    /\ fetch_pc = "exported"
    /\ \E i \in DOMAIN customers : customers[i].payment_frequency_days.nan
    /\ \E i \in Qualifying(customers) : customers[i].payment_frequency_days.num > 0
    /\ metrics["Avg Days Between Payments"] > 0
    /\ metrics["Active Customers"] < Len(customers)


\* The orders in which the payments of a list can arrive
Arrivals(payments) ==
    {[i \in DOMAIN payments |-> payments[f[i]]] :
        f \in {g \in [DOMAIN payments -> DOMAIN payments] :
                  \A i, j \in DOMAIN payments : g[i] = g[j] => i = j}}

\* C27: the profile of a customer does not depend on the order in which the
\* customer's transactions arrive: whatever the permutation of the payments,
\* also of payments with equal dates and different amounts,
\* _analyze_customer_engagement at the same instants returns the same profile.
C27_ArrivalOrderIrrelevant ==
    rpc = "done" =>
        \A arrived \in Arrivals(data.payments) :
            _analyze_customer_engagement(data.customer_id,
                [data EXCEPT !.payments = arrived],
                readings[1][1], readings[1][2]) = profile

\* C28: in every profile historical_engagement "dormant" implies payment_status
\* "at_risk": a customer with 2 or more payments whose days since the last
\* payment exceed 3 times the frequency is never on_track, overdue or unknown.
C28_DormantIsAtRisk ==
    Profiled =>
        /\ profile.historical_engagement = "dormant" =>
              profile.payment_status = "at_risk"
        /\ (/\ profile.transaction_count >= 2
            /\ profile.days_since_last_payment * profile.payment_frequency_days.den
                  > 3 * profile.payment_frequency_days.num)
              => profile.payment_status \notin {"on_track", "overdue", "unknown"}

\* A dormant customer whose last payment is between 3 and 4 frequencies old
C28_Witness ==
    /\ Profiled
    /\ profile.historical_engagement = "dormant"
    /\ profile.payment_status = "at_risk"
    /\ profile.payment_frequency_days.num > 0
    /\ profile.days_since_last_payment * profile.payment_frequency_days.den
          <= 4 * profile.payment_frequency_days.num

\* C29: for a customer with 2 or 3 payments historical_engagement is "dormant"
\* or "irregular" and nothing else: one half of the history holds a single
\* payment, whose frequency is undefined, so "consistent" and "declining" are
\* returned only for 4 or more payments.
C29_HalvesNeedFourPayments ==
    Profiled =>
        /\ profile.transaction_count \in {2, 3} =>
              /\ profile.historical_engagement \in {"dormant", "irregular"}
              /\ \/ FirstHalf(profile.payment_history).nan
                 \/ SecondHalf(profile.payment_history).nan
        /\ profile.historical_engagement \in {"consistent", "declining"} =>
              profile.transaction_count >= 4

\* Three payments 30 days apart, the last one 10 days old: irregular
C29_Witness ==
    /\ Profiled
    /\ profile.transaction_count = 3
    /\ profile.payment_history[2].date - profile.payment_history[1].date = timedelta(30)
    /\ profile.payment_history[3].date - profile.payment_history[2].date = timedelta(30)
    /\ profile.days_since_last_payment = 10
    /\ profile.historical_engagement = "irregular"

====
